---- MODULE Spec2Model ----
(***************************************************************************)
(* ThermalNetwork: sizing of the ground-coupled side of a district thermal *)
(* network.  The model follows thermalnetwork/network.py (the worker       *)
(* run_sizer_from_cli_worker and the Network methods it calls) and         *)
(* thermalnetwork/ground_heat_exchanger.py (GHE.size).                     *)
(*                                                                         *)
(* Hourly arrays have Hours entries instead of HOURS_IN_YEAR.  Loads that  *)
(* the code holds as floats are exact rationals <<num, den>> here, so      *)
(* floating-point rounding is outside the model.                           *)
(***************************************************************************)
EXTENDS Integers, Sequences, FiniteSets, TLC

(* ------------------------------ bounds --------------------------------- *)
\* length of every hourly array (HOURS_IN_YEAR in the code)
Hours == 2
\* largest number of ThermalConnector features of an input document
MaxConnectors == 3
\* largest footprint area of a GHE
MaxArea == 2
\* largest borehole count the borefield engine reports
MaxBoreholes == 2
\* largest number of components after the primary pump of a network that
\* is given directly to the sizing methods
MaxComponents == 3
\* sizes of the pipe catalog that are taken, from the smallest
MaxPipeSizes == 3
\* rows of a building's load file
MaxRows == 3
\* hours of the day that make_loads_hourly adds behind the last row
DayHours == 1

\* ids of the building / district-system features of an input document
NodeIds == {"A", "B", "C"}
\* hourly net ground loads a building's ETS can have (W)
LoadValues == {-1, 2}
\* per-borehole design flow rates of the system-parameter file (L/s)
FlowRates == {1, 3}

None == "none"

(* ----------------------------- rationals ------------------------------- *)
RECURSIVE GCD(_, _)
GCD(a, b) == IF b = 0 THEN a ELSE GCD(b, a % b)

Abs(x) == IF x < 0 THEN -x ELSE x

\* the rational n/d (d # 0) in lowest terms with a positive denominator
Rat(n, d) ==
    LET g == GCD(Abs(n), Abs(d))
        s == IF d < 0 THEN -1 ELSE 1
    IN  <<(s * n) \div g, (s * d) \div g>>

RatOfInt(n) == <<n, 1>>
RatAdd(p, q) == Rat(p[1] * q[2] + q[1] * p[2], p[2] * q[2])
RatMul(p, q) == Rat(p[1] * q[1], p[2] * q[2])
RatDiv(p, q) == Rat(p[1] * q[2], p[2] * q[1])
RatSub(p, q) == RatAdd(p, <<-q[1], q[2]>>)
RatLess(p, q) == p[1] * q[2] < q[1] * p[2]
RatAbs(p) == <<Abs(p[1]), p[2]>>

\* utilities.lps_to_cms: x * 0.001
lps_to_cms(x) == RatMul(RatOfInt(x), Rat(1, 1000))

(* --------------------------- input documents --------------------------- *)
Building == "Building"
DistrictSystem == "District System"
ThermalConnector == "ThermalConnector"
GroundHeatExchanger == "Ground Heat Exchanger"

\* a building or district-system feature of the GeoJSON document
NodeFeature(n, kind, flagged) ==
    [id |-> n,
     name |-> <<n>>,
     type |-> IF kind = Building THEN Building ELSE DistrictSystem,
     district_system_type |-> IF kind = Building THEN None ELSE kind,
     startloop |-> flagged,
     startFeatureId |-> None,
     endFeatureId |-> None]

\* a ThermalConnector feature carrying the directed pair (s, e)
ConnectorFeature(k, s, e) ==
    [id |-> <<"connector", k>>,
     name |-> <<>>,
     type |-> ThermalConnector,
     district_system_type |-> None,
     startloop |-> FALSE,
     startFeatureId |-> s,
     endFeatureId |-> e]

NodeOrder == <<"A", "B", "C">>
Pairs == {p \in NodeIds \X NodeIds : p[1] # p[2]}
ConnSeqs == UNION {[1..n -> Pairs] : n \in 0..MaxConnectors}

\* the features of a document: its nodes, then its connectors in the
\* order the document lists them
Document(kinds, flag, cs) ==
    [i \in 1..(Len(NodeOrder) + Len(cs)) |->
        IF i <= Len(NodeOrder)
        THEN NodeFeature(NodeOrder[i], kinds[NodeOrder[i]], flag = NodeOrder[i])
        ELSE ConnectorFeature(i - Len(NodeOrder), cs[i - Len(NodeOrder)][1],
                              cs[i - Len(NodeOrder)][2])]

(* --------------------------- helper operators -------------------------- *)
IsBuilding(f) == f.type = Building
IsNotBuilding(f) == f.type # Building
IsConnector(f) == f.type = ThermalConnector
HasEnd(f) == f.endFeatureId # None

SeqRange(s) == {s[i] : i \in 1..Len(s)}

RECURSIVE Flatten(_)
Flatten(ss) == IF ss = <<>> THEN <<>> ELSE Head(ss) \o Flatten(Tail(ss))

\* the rebuilt feature list of the worker: everything that is not a
\* building, then the building features
RebuildFeatures(fs) == SelectSeq(fs, IsNotBuilding) \o SelectSeq(fs, IsBuilding)

(* --------------------------- topology resolver ------------------------- *)
\* the connector features of the document
Connectors(fs) == SelectSeq(fs, IsConnector)

\* the endFeatureId of every feature that has one, in document order
EndIds(fs) ==
    LET withEnd == SelectSeq(fs, HasEnd)
    IN  [i \in 1..Len(withEnd) |-> withEnd[i].endFeatureId]

\* the building / district-system features whose id is the given one
MatchingObjects(fs, cid) ==
    LET Match(f) == f.id = cid /\ f.type \in {Building, DistrictSystem}
        m == SelectSeq(fs, Match)
    IN  [i \in 1..Len(m) |->
            [id |-> m[i].id, type |-> m[i].type, name |-> m[i].name,
             district_system_type |-> m[i].district_system_type,
             startloop |-> m[i].startloop]]

\* the resolver without its check for duplicate connections
ConnectedFeaturesError_NoDupCheck(fs) ==
    IF Len(Connectors(fs)) = 0 THEN "no_connectors" ELSE None

\* Network.get_connected_features: the error it raises, or None
ConnectedFeaturesError(fs) ==
    IF Len(Connectors(fs)) = 0 THEN "no_connectors"
    ELSE IF Cardinality(SeqRange(EndIds(fs))) # Len(EndIds(fs)) THEN "duplicate_connections"
    ELSE None

\* Network.get_connected_features: the list it returns
get_connected_features(fs) ==
    LET ends == EndIds(fs)
    IN  Flatten([i \in 1..Len(ends) |-> MatchingObjects(fs, ends[i])])

IsGhe(f) == f.district_system_type = GroundHeatExchanger

\* index of the first Ground Heat Exchanger of the list, 0 when there is none
StartLoopIndex(features) ==
    IF \E i \in 1..Len(features) : IsGhe(features[i])
    THEN CHOOSE i \in 1..Len(features) :
            /\ IsGhe(features[i])
            /\ \A j \in 1..(i - 1) : ~IsGhe(features[j])
    ELSE 0

\* a reordering that drops the features before the loop start
reorder_connected_features_NoWrap(features) ==
    SubSeq(features, StartLoopIndex(features), Len(features))

\* Network.reorder_connected_features: features[start:] + features[:start]
reorder_connected_features(features) ==
    LET s == StartLoopIndex(features)
    IN  SubSeq(features, s, Len(features)) \o SubSeq(features, 1, s - 1)

(* -------------------------------- strings ------------------------------ *)
\* a string of the input files is the sequence of its characters
LowerCase == <<"a", "e", "h", "i", "l", "m", "n", "o", "p", "r", "s", "t", "u", "y">>
UpperCase == <<"A", "E", "H", "I", "L", "M", "N", "O", "P", "R", "S", "T", "U", "Y">>
WhiteSpace == {" "}

\* str.upper(): every lower-case letter becomes its capital
str_upper(s) ==
    [j \in 1..Len(s) |->
        IF \E k \in 1..Len(LowerCase) : LowerCase[k] = s[j]
        THEN UpperCase[CHOOSE k \in 1..Len(LowerCase) : LowerCase[k] = s[j]]
        ELSE s[j]]

\* str.strip(): leading and trailing whitespace is removed
RECURSIVE str_strip(_)
str_strip(s) ==
    IF s = <<>> THEN s
    ELSE IF s[1] \in WhiteSpace THEN str_strip(Tail(s))
    ELSE IF s[Len(s)] \in WhiteSpace THEN str_strip(SubSeq(s, 1, Len(s) - 1))
    ELSE s

\* the characters of a string written as one name
RECURSIVE Join(_)
Join(cs) == IF cs = <<>> THEN "" ELSE cs[1] \o Join(Tail(cs))

(* ------------------------------ components ----------------------------- *)
PUMP == "PUMP"
ENERGYTRANSFERSTATION == "ENERGYTRANSFERSTATION"
GROUNDHEATEXCHANGER == "GROUNDHEATEXCHANGER"
AREAPROPORTIONAL == "AREAPROPORTIONAL"
UPSTREAM == "UPSTREAM"
Autosized == "autosized"
PreDesigned == "pre_designed_borefield"

ZeroLoads == [h \in 1..Hours |-> 0]
LoadArrays == [1..Hours -> LoadValues]

\* Pump.get_loads: the hydraulic power design_flow * design_head for every
\* hour (the motor-heat term is a multiple of it)
PumpLoads(des_flow, des_head) == [h \in 1..Hours |-> des_flow * des_head]

\* Pump(data): the primary pump of convert_features has design_head 0
PumpComponent(id) ==
    [id |-> id, name |-> <<>>, comp_type |-> PUMP, loads |-> PumpLoads(1, 0), area |-> 0,
     design_method |-> None, coords |-> 0, ground_loads |-> <<>>,
     nbh |-> 0, bh_length |-> 0, sized |-> FALSE]

\* ETS(data): the net ground load of the building is read from its load file
EtsComponent(id, loads) ==
    [id |-> id, name |-> <<>>, comp_type |-> ENERGYTRANSFERSTATION, loads |-> loads, area |-> 0,
     design_method |-> None, coords |-> 0, ground_loads |-> <<>>,
     nbh |-> 0, bh_length |-> 0, sized |-> FALSE]

\* GHE(data): area from compute_area, no load assigned, nbh None
GheComponent(id, area, method, coords) ==
    [id |-> id, name |-> <<>>, comp_type |-> GROUNDHEATEXCHANGER, loads |-> <<>>, area |-> area,
     design_method |-> method, coords |-> coords, ground_loads |-> <<>>,
     nbh |-> 0, bh_length |-> 0, sized |-> FALSE]

IsGheComp(c) == c.comp_type = GROUNDHEATEXCHANGER

\* BaseComponent.__init__: the name is kept stripped and upper-cased
Named(c, name) == [c EXCEPT !.name = str_upper(str_strip(name))]

\* the name convert_features gives the pump it puts first
PrimaryPumpName == <<"p", "r", "i", "m", "a", "r", "y", " ", "p", "u", "m", "p">>

\* the borefield entries of the system-parameter file
BorefieldSet ==
    [area : 1..MaxArea, design_method : {Autosized}, coords : {0}]
    \cup [area : 1..MaxArea, design_method : {PreDesigned}, coords : 1..MaxBoreholes]

\* Network.convert_features: the primary pump, then one entry per feature
\* in the order of the list it is given
convert_features(json_data) ==
    <<[id |-> "0", name |-> PrimaryPumpName, type |-> PUMP]>> \o
    [j \in 1..Len(json_data) |->
        [id |-> json_data[j].id,
         name |-> json_data[j].name,
         type |-> IF json_data[j].type = Building
                  THEN ENERGYTRANSFERSTATION ELSE GROUNDHEATEXCHANGER]]

(* ---------------------------- design method --------------------------- *)
\* an unsupported method string taken for the area-proportional method
set_ghe_design_method_Default(des_method_str) ==
    IF Join(str_upper(str_strip(des_method_str))) = UPSTREAM
    THEN UPSTREAM ELSE AREAPROPORTIONAL

\* Network.set_ghe_design_method: the string is stripped and upper-cased and
\* compared with the names of DesignType; an unsupported method is logged
\* and leaves des_method None
set_ghe_design_method(des_method_str) ==
    LET name == Join(str_upper(str_strip(des_method_str)))
    IN  IF name = AREAPROPORTIONAL THEN AREAPROPORTIONAL
        ELSE IF name = UPSTREAM THEN UPSTREAM
        ELSE None

(* ------------------------------ allocation ----------------------------- *)
\* indexes of the GROUNDHEATEXCHANGER devices of the network, ascending
GheIndexes(net) ==
    LET IsGheAt(j) == IsGheComp(net[j])
    IN  SelectSeq([j \in 1..Len(net) |-> j], IsGheAt)

\* hour-by-hour sum of get_loads() over a list of devices, from zeros
RECURSIVE SumLoads(_)
SumLoads(devices) ==
    IF devices = <<>> THEN ZeroLoads
    ELSE LET rest == SumLoads(SubSeq(devices, 1, Len(devices) - 1))
             last == devices[Len(devices)].loads
         IN  [h \in 1..Hours |-> rest[h] + last[h]]

NotGheComp(c) == ~IsGheComp(c)

\* size_area_proportional: sum of the areas of the GHEs
TotalGheArea(net) ==
    LET gi == GheIndexes(net)
        RECURSIVE Acc(_)
        Acc(n) == IF n = 0 THEN 0 ELSE Acc(n - 1) + net[gi[n]].area
    IN  Acc(Len(gi))

\* size_area_proportional: sum of the loads of every device that is no GHE
TotalNetworkLoads(net) == SumLoads(SelectSeq(net, NotGheComp))

\* heat_source_rate of the system-parameter file: <<>> when no rate is
\* configured, <<r>> for the constant rate r
NoRate == <<>>

\* Network.add_waste_heat_sources with a constant rate: no rate configured
\* returns the loads as they are, a rate gives maximum(load - rate, 0)
add_waste_heat_sources(total_network_loads, heat_source_rate) ==
    IF heat_source_rate = NoRate THEN total_network_loads
    ELSE [h \in 1..Hours |->
            IF total_network_loads[h] - heat_source_rate[1] > 0
            THEN total_network_loads[h] - heat_source_rate[1] ELSE 0]

\* size_area_proportional: total_network_loads / total_ghe_area
NetworkLoadPerArea(net, heat_source_rate) ==
    LET total == add_waste_heat_sources(TotalNetworkLoads(net), heat_source_rate)
        area == TotalGheArea(net)
    IN  IF area = 0 THEN <<>>
        ELSE [h \in 1..Hours |-> RatDiv(RatOfInt(total[h]), RatOfInt(area))]

\* the load per area taken as the load of the GHE
AreaProportionalLoad_NoArea(load_per_area, ghe_area) == load_per_area

\* size_area_proportional: network_load_per_area * ghe_area
AreaProportionalLoad(load_per_area, ghe_area) ==
    [h \in 1..Hours |-> RatMul(load_per_area[h], RatOfInt(ghe_area))]

\* size_to_upstream_equipment: first and last index of the slice taken for
\* the i-th GHE, network[:ghe_index] or network[ghe_indexes[i-1]+1 : ghe_index]
SliceBounds(net, i) ==
    LET gi == GheIndexes(net)
    IN  IF i = 1 THEN <<1, gi[1] - 1>> ELSE <<gi[i - 1] + 1, gi[i] - 1>>

\* a slice that runs from the start of the network for every GHE
DevicesBeforeGhe_FromStart(net, i) ==
    SelectSeq(SubSeq(net, 1, GheIndexes(net)[i] - 1), NotGheComp)

\* size_to_upstream_equipment: devices_before_ghe of the i-th GHE
DevicesBeforeGhe(net, i) == SubSeq(net, SliceBounds(net, i)[1], SliceBounds(net, i)[2])

\* a ghe_load that is never filled in
UpstreamLoad_Empty(net, i) == <<>>

\* size_to_upstream_equipment: ghe_load of the i-th GHE
UpstreamLoad(net, i) ==
    LET sum == SumLoads(DevicesBeforeGhe(net, i))
    IN  [h \in 1..Hours |-> RatOfInt(sum[h])]

(* ------------------------------- GHE.size ------------------------------ *)
\* borehole_length of a pre-designed borefield in the system-parameter file
PreDesignedLength == 90
\* what the borefield engine can do on one call: fail (no summary), or
\* leave a summary with a borehole count
EngineFail == [ok |-> FALSE, number_of_boreholes |-> 0, active_borehole_length |-> 0]
EngineOutcomes ==
    {EngineFail} \cup
    {[ok |-> TRUE, number_of_boreholes |-> n, active_borehole_length |-> 100 + n] :
        n \in 1..MaxBoreholes}

\* a failure of the engine that is swallowed
ghe_size_error_Swallowed(outcome) == None

\* GHE.size: the exception that leaves it, None when it returns
ghe_size_error(outcome) == IF outcome.ok THEN None ELSE "engine_error"

\* GHE.size: the GHE afterwards.  A pre-designed GHE takes its count from
\* its coordinates while the input file is written, an autosized one from
\* the summary the engine leaves
ghe_after_size(c, outcome) ==
    LET n == IF c.design_method = PreDesigned THEN c.coords
             ELSE IF outcome.ok THEN outcome.number_of_boreholes ELSE c.nbh
        l == IF c.design_method = PreDesigned THEN PreDesignedLength
             ELSE IF outcome.ok THEN outcome.active_borehole_length ELSE c.bh_length
    IN  [c EXCEPT !.nbh = n, !.bh_length = l, !.sized = outcome.ok]

\* the nbh of the last GHE taken for the largest
MaxNumBoreholes_Last(net) ==
    IF GheIndexes(net) = <<>> THEN 0
    ELSE net[GheIndexes(net)[Len(GheIndexes(net))]].nbh

\* size_network: largest nbh over the GHEs of the network, from 0
MaxNumBoreholes(net) ==
    LET RECURSIVE Acc(_)
        Acc(n) == IF n = 0 THEN 0
                  ELSE LET m == Acc(n - 1)
                       IN  IF IsGheComp(net[n]) /\ net[n].nbh > m THEN net[n].nbh ELSE m
    IN  Acc(Len(net))

\* size_network: lps_to_cms(flow_rate) * max_num_boreholes
NetworkDesignVolFlow(net, flow_rate) ==
    RatMul(lps_to_cms(flow_rate), RatOfInt(MaxNumBoreholes(net)))

(* --------------------------------- pipe -------------------------------- *)
\* utilities.inch_to_m: x * 0.0254
inch_to_m(x_inch) == RatMul(x_inch, Rat(254, 10000))

\* ip_pipes["outside_diameter"], in thousandths of an inch
ip_pipes_outside_diameter ==
    <<1050, 1315, 1660, 1900, 2375, 3500, 4500, 5563, 6625, 7125, 8625, 10750, 12750,
      14000, 16000, 18000, 20000, 22000, 24000, 26000, 28000, 30000, 32000, 34000,
      36000, 42000, 48000, 54000, 63000>>

\* the outer diameters of the catalog that are taken, in meters
CatalogDiameters ==
    [k \in 1..MaxPipeSizes |-> inch_to_m(Rat(ip_pipes_outside_diameter[k], 1000))]

\* Pipe(dimension_ratio, length, ...); losses stands for the fluid: what
\* friction_factor, density and viscosity make of a positive flow, as the
\* pressure loss in Pa at each outer diameter
Pipe(dimension_ratio, length, losses) ==
    [dimension_ratio |-> dimension_ratio, length |-> length, losses |-> losses,
     outer_diameter |-> <<>>, inner_diameter |-> <<>>]

\* Pipe.set_diameters
set_diameters(pipe, outer_dia) ==
    [pipe EXCEPT
        !.inner_diameter =
            <<RatMul(outer_dia,
                     RatSub(RatOfInt(1), RatDiv(RatOfInt(2), RatOfInt(pipe.dimension_ratio))))>>,
        !.outer_diameter = <<outer_dia>>]

\* Pipe.pressure_loss: 0 for no flow, otherwise term_1 * term_2 at the
\* diameter that is set
pressure_loss(pipe, vol_flow_rate) ==
    IF ~RatLess(RatOfInt(0), vol_flow_rate) THEN RatOfInt(0)
    ELSE pipe.losses[pipe.outer_diameter[1]]

\* Pipe.pressure_loss_per_length: the value, next to the pipe it leaves
pressure_loss_per_length(pipe, vol_flow_rate, outside_diameter) ==
    RatDiv(pressure_loss(set_diameters(pipe, outside_diameter), vol_flow_rate),
           RatOfInt(pipe.length))

\* a scan that takes the largest size below the target
size_hydraulic_diameter_LargestBelow(pipe, vol_flow_rate, design_pressure_loss_per_length) ==
    LET Below(k) == RatLess(pressure_loss_per_length(pipe, vol_flow_rate, CatalogDiameters[k]),
                            design_pressure_loss_per_length)
        found == \E k \in 1..MaxPipeSizes : Below(k)
        last == IF found
                THEN CHOOSE k \in 1..MaxPipeSizes :
                         Below(k) /\ \A l \in (k + 1)..MaxPipeSizes : ~Below(l)
                ELSE MaxPipeSizes
    IN  [value |-> set_diameters(pipe, CatalogDiameters[last]).inner_diameter[1],
         warning |-> ~found,
         pipe |-> set_diameters(pipe, CatalogDiameters[last])]

\* Pipe.size_hydraulic_diameter with return_discrete_pipe_size: the catalog
\* is tried from its first size on; the first size whose loss per length is
\* below the design value ends the scan, and after the last size a warning
\* is logged; the inner diameter set by the last try is returned
size_hydraulic_diameter(pipe, vol_flow_rate, design_pressure_loss_per_length) ==
    LET Below(k) == RatLess(pressure_loss_per_length(pipe, vol_flow_rate, CatalogDiameters[k]),
                            design_pressure_loss_per_length)
        found == \E k \in 1..MaxPipeSizes : Below(k)
        last == IF found
                THEN CHOOSE k \in 1..MaxPipeSizes : Below(k) /\ \A l \in 1..(k - 1) : ~Below(l)
                ELSE MaxPipeSizes
    IN  [value |-> set_diameters(pipe, CatalogDiameters[last]).inner_diameter[1],
         warning |-> ~found,
         pipe |-> set_diameters(pipe, CatalogDiameters[last])]

(* --------------------------- configuration file ------------------------ *)
\* the pipe size_network builds from the horizontal piping parameters and
\* the summed total_length of the connectors; the loss of a positive flow
\* falls from size to size of the catalog
NetworkPipe ==
    Pipe(11, 1, [d \in {CatalogDiameters[k] : k \in 1..MaxPipeSizes} |->
                   RatOfInt(300 * (MaxPipeSizes -
                       (CHOOSE k \in 1..MaxPipeSizes : CatalogDiameters[k] = d)))])

\* size_network: the three values it leaves on the network for the flow
\* network_design_vol_flow, with pressure_drop_per_meter at its default
size_network(network_design_vol_flow) ==
    LET sized == size_hydraulic_diameter(NetworkPipe, network_design_vol_flow, RatOfInt(300))
    IN  [autosized_hydraulic_dia |-> sized.value,
         autosized_design_pump_head |-> pressure_loss(sized.pipe, network_design_vol_flow),
         autosized_design_flow_rate |-> network_design_vol_flow]

\* dict.get(flag) of an *_autosized flag: <<>> stands for a missing key
Truthy(flag) == flag = <<TRUE>>

\* borefield entries that take the result of the GHE of another id
update_borefields_AnyGhe(borefields, net) ==
    LET Sized == {j \in 1..Len(net) : IsGheComp(net[j]) /\ net[j].design_method # PreDesigned}
    IN  [id \in DOMAIN borefields |->
            IF Sized # {}
            THEN LET j == CHOOSE j \in Sized : \A l \in Sized : l <= j
                 IN  [borefields[id] EXCEPT !.borehole_length = net[j].bh_length,
                                            !.number_of_boreholes = net[j].nbh]
            ELSE borefields[id]]

\* update_sys_params, the loop over the network: every GHE that is not
\* pre-designed writes its bh_length and nbh into the borefields entry
\* whose ghe_id is its id, under the key of its design method
update_borefields(borefields, net) ==
    LET Sized(id) == \E j \in 1..Len(net) :
            /\ IsGheComp(net[j]) /\ net[j].design_method # PreDesigned
            /\ net[j].id = id
        LastOf(id) == CHOOSE j \in 1..Len(net) :
            /\ IsGheComp(net[j]) /\ net[j].design_method # PreDesigned
            /\ net[j].id = id
            /\ \A l \in (j + 1)..Len(net) :
                 ~(IsGheComp(net[l]) /\ net[l].design_method # PreDesigned /\ net[l].id = id)
    IN  [id \in DOMAIN borefields |->
            IF Sized(id)
            THEN [borefields[id] EXCEPT !.borehole_length = net[LastOf(id)].bh_length,
                                        !.number_of_boreholes = net[LastOf(id)].nbh]
            ELSE borefields[id]]

\* an update that writes the three values whatever the flags say
update_sys_params_AllWritten(d, net, sized) ==
    [d EXCEPT
        !.borefields = update_borefields(d.borefields, net),
        !.hydraulic_diameter = sized.autosized_hydraulic_dia,
        !.pump_design_head = sized.autosized_design_pump_head,
        !.pump_flow_rate = sized.autosized_design_flow_rate]

\* update_sys_params: the document it writes
update_sys_params(d, net, sized) ==
    [d EXCEPT
        !.borefields = update_borefields(d.borefields, net),
        !.hydraulic_diameter = IF Truthy(d.hydraulic_diameter_autosized)
                               THEN sized.autosized_hydraulic_dia ELSE d.hydraulic_diameter,
        !.pump_design_head = IF Truthy(d.pump_design_head_autosized)
                             THEN sized.autosized_design_pump_head ELSE d.pump_design_head,
        !.pump_flow_rate = IF Truthy(d.pump_flow_rate_autosized)
                           THEN sized.autosized_design_flow_rate ELSE d.pump_flow_rate]

\* design-method strings of the system-parameter file
MethodStrings ==
    {<<"A", "R", "E", "A", "P", "R", "O", "P", "O", "R", "T", "I", "O", "N", "A", "L">>,
     <<" ", "u", "p", "s", "t", "r", "e", "a", "m", " ">>,
     <<"o", "t", "h", "e", "r">>}
\* further strings a run of the worker is given: the exact name, mixed case
\* with a trailing blank, and a name broken by a blank
RunMethodStrings ==
    MethodStrings \cup
    {<<"U", "P", "S", "T", "R", "E", "A", "M">>,
     <<"A", "r", "e", "a", "P", "r", "o", "p", "o", "r", "t", "i", "o", "n", "a", "l", " ">>,
     <<"U", "P", " ", "S", "T", "R", "E", "A", "M">>}
\* heat_source_rate values of the system-parameter file: none, or a constant
HeatSourceRates == {NoRate, <<1>>}

\* the borefields of the documents of the full run: one entry per feature
\* id, used when the feature is a GHE
RunBorefields ==
    [id \in NodeIds |->
        IF id = "B"
        THEN [area |-> MaxArea, design_method |-> PreDesigned, coords |-> MaxBoreholes,
              borehole_length |-> PreDesignedLength, number_of_boreholes |-> 0]
        ELSE [area |-> 1, design_method |-> Autosized, coords |-> 0,
              borehole_length |-> 0, number_of_boreholes |-> 0]]

\* a system-parameter file before any run
SysParamFile(method, flow_rate, heat_source_rate) ==
    [method |-> method, flow_rate |-> flow_rate, heat_source_rate |-> heat_source_rate,
     borefields |-> RunBorefields,
     hydraulic_diameter_autosized |-> <<FALSE>>, hydraulic_diameter |-> RatOfInt(0),
     pump_design_head_autosized |-> <<TRUE>>, pump_design_head |-> RatOfInt(0),
     pump_flow_rate_autosized |-> <<TRUE>>, pump_flow_rate |-> RatOfInt(0)]

(* ------------------------------- state --------------------------------- *)
VARIABLES
    features,                   \* geojson_data["features"]
    doc,                        \* the system-parameter file on disk
    doc_at_start,               \* history: the file when the run started
    writes,                     \* history: number of writes of the file
    system_parameters_data,     \* Network.system_parameters_data
    pc,                         \* position of the worker
    error,                      \* the exception that ended the run, or None
    ret,                        \* <<v>> once the worker has returned v, else <<>>
    connected_features,         \* result of get_connected_features
    reordered_features,         \* result of reorder_connected_features
    network_data,               \* result of convert_features
    des_method,                 \* Network.des_method
    network,                    \* Network.network
    i,                          \* position in ghe_indexes of the sizing loop
    network_load_per_area,      \* local of size_area_proportional
    autosized_design_flow_rate, \* Network.autosized_design_flow_rate
    obj,                        \* a component built on its own, and its inputs
    out                         \* what the last call on obj returned or raised

vars == <<features, doc, doc_at_start, writes, system_parameters_data, pc, error, ret,
          connected_features, reordered_features, network_data, des_method, network,
          i, network_load_per_area, autosized_design_flow_rate, obj, out>>

\* the variables of a component used on its own, outside a network
unit_vars == <<obj, out>>

\* what a call leaves in out: nothing yet, the value returned, or the
\* exception raised
NotCalled == [called |-> FALSE, raised |-> None, value |-> <<>>]
Return(v) == [called |-> TRUE, raised |-> None, value |-> v]
Raise(e) == [called |-> TRUE, raised |-> e, value |-> <<>>]

\* no component has been built on its own
NoUnit == obj = [kind |-> None] /\ out = NotCalled

\* the value of ret while the worker runs, and once it has returned v
NotReturned == <<>>
Returned(v) == <<v>>

\* Network.__init__ and the locals of the worker before they are assigned
Fresh ==
    /\ writes = 0
    /\ error = None
    /\ ret = NotReturned
    /\ connected_features = <<>>
    /\ reordered_features = <<>>
    /\ network_data = <<>>
    /\ des_method = None
    /\ network = <<>>
    /\ i = 0
    /\ network_load_per_area = <<>>
    /\ autosized_design_flow_rate = RatOfInt(0)
    /\ NoUnit

\* a run of the worker on a document without loop-start flags
Init ==
    /\ \E kinds \in [NodeIds -> {Building, GroundHeatExchanger}], cs \in ConnSeqs :
          features = Document(kinds, None, cs)
    /\ \E m \in RunMethodStrings, fr \in FlowRates : doc = SysParamFile(m, fr, NoRate)
    /\ doc_at_start = doc
    /\ system_parameters_data = None
    /\ pc = "start"
    /\ Fresh

Abort(e) == /\ error' = e
            /\ pc' = "aborted"

(* ------------------------------- actions ------------------------------- *)
\* run_sizer_from_cli_worker up to the Network constructor: both files must
\* exist; the feature list is rebuilt
LoadInputs ==
    /\ UNCHANGED unit_vars
    /\ pc = "start"
    /\ \E missing \in {None, "geojson", "sys_param"} :
         IF missing # None
         THEN /\ ret' = Returned(1)
              /\ pc' = "aborted"
              /\ UNCHANGED <<features, system_parameters_data>>
         ELSE /\ system_parameters_data' = doc
              /\ features' = RebuildFeatures(features)
              /\ pc' = "get_connected"
              /\ ret' = ret
    /\ UNCHANGED <<doc, doc_at_start, writes, error, connected_features,
                   reordered_features, network_data, des_method, network, i,
                   network_load_per_area, autosized_design_flow_rate>>

\* network.get_connected_features()
GetConnectedFeatures ==
    /\ UNCHANGED unit_vars
    /\ pc = "get_connected"
    /\ IF ConnectedFeaturesError(features) # None
       THEN /\ Abort(ConnectedFeaturesError(features))
            /\ UNCHANGED connected_features
       ELSE /\ connected_features' = get_connected_features(features)
            /\ pc' = "reorder"
            /\ error' = error
    /\ UNCHANGED <<features, doc, doc_at_start, writes, system_parameters_data, ret,
                   reordered_features, network_data, des_method, network, i,
                   network_load_per_area, autosized_design_flow_rate>>

\* network.reorder_connected_features(connected_features)
ReorderConnectedFeatures ==
    /\ UNCHANGED unit_vars
    /\ pc = "reorder"
    /\ IF StartLoopIndex(connected_features) = 0
       THEN /\ Abort("no_ghe")
            /\ UNCHANGED reordered_features
       ELSE /\ reordered_features' = reorder_connected_features(connected_features)
            /\ pc' = "convert"
            /\ error' = error
    /\ UNCHANGED <<features, doc, doc_at_start, writes, system_parameters_data, ret,
                   connected_features, network_data, des_method, network, i,
                   network_load_per_area, autosized_design_flow_rate>>

\* the list the worker hands to convert_features
ConvertedList(connected, reordered) == connected

\* ids of the buildings of a feature list
BuildingIds(fs) == {fs[j].id : j \in {l \in 1..Len(fs) : fs[l].type = Building}}

\* the integer 1 that convert_features returns in place of a list
ReturnedOne == <<>>

\* network.convert_features(connected_features): when the load file of a
\* building is not found it returns 1 instead of a list
ConvertFeatures ==
    /\ UNCHANGED unit_vars
    /\ pc = "convert"
    /\ \E missing \in {None} \cup BuildingIds(ConvertedList(connected_features, reordered_features)) :
         network_data' = IF missing = None
                         THEN convert_features(ConvertedList(connected_features, reordered_features))
                         ELSE ReturnedOne
    /\ pc' = "set_method"
    /\ UNCHANGED <<features, doc, doc_at_start, writes, system_parameters_data, error, ret,
                   connected_features, reordered_features, des_method, network, i,
                   network_load_per_area, autosized_design_flow_rate>>

\* network.set_ghe_design_method(ghe_design_data["method"])
SetGheDesignMethod ==
    /\ UNCHANGED unit_vars
    /\ pc = "set_method"
    /\ des_method' = set_ghe_design_method(system_parameters_data.method)
    /\ pc' = "add_components"
    /\ UNCHANGED <<features, doc, doc_at_start, writes, system_parameters_data, error, ret,
                   connected_features, reordered_features, network_data, network, i,
                   network_load_per_area, autosized_design_flow_rate>>

\* load arrays a building's load file can hold in a run of the worker
FileLoadArrays == {[h \in 1..Hours |-> v] : v \in LoadValues}

\* one iteration of "for component in network_data": add_ets_to_network,
\* add_ghe_to_network or add_pump_to_network; iterating the integer that
\* convert_features returned for a missing load file raises
AddComponent ==
    /\ UNCHANGED unit_vars
    /\ pc = "add_components"
    /\ IF network_data = ReturnedOne
       THEN /\ Abort("not_iterable")
            /\ UNCHANGED network
       ELSE LET component == network_data[Len(network) + 1]
                borefield == system_parameters_data.borefields[component.id]
            IN  /\ \E loads \in FileLoadArrays :
                     network' = Append(network, Named(
                        IF component.type = PUMP THEN PumpComponent(component.id)
                        ELSE IF component.type = ENERGYTRANSFERSTATION
                        THEN EtsComponent(component.id, loads)
                        ELSE GheComponent(component.id, borefield.area,
                                          borefield.design_method, borefield.coords),
                        component.name))
                /\ pc' = IF Len(network) + 1 = Len(network_data)
                         THEN "size_ghe" ELSE "add_components"
                /\ error' = error
    /\ UNCHANGED <<features, doc, doc_at_start, writes, system_parameters_data, ret,
                   connected_features, reordered_features, network_data, des_method, i,
                   network_load_per_area, autosized_design_flow_rate>>

\* where the sizing loop goes after GHE number n of ghe_indexes
AfterGhe(net, n) == IF n >= Len(GheIndexes(net)) THEN "size_network" ELSE "assign"

\* Network.size_ghe up to the sizing loop of the chosen strategy
SizeGhe ==
    /\ UNCHANGED unit_vars
    /\ pc = "size_ghe"
    /\ IF des_method = AREAPROPORTIONAL
       THEN /\ network_load_per_area' =
                  NetworkLoadPerArea(network, system_parameters_data.heat_source_rate)
            /\ i' = 1
            /\ pc' = AfterGhe(network, 0)
            /\ error' = error
       ELSE IF des_method = UPSTREAM
       THEN /\ i' = 1
            /\ pc' = AfterGhe(network, 0)
            /\ UNCHANGED <<network_load_per_area, error>>
       ELSE /\ Abort("unsupported_design_method")
            /\ UNCHANGED <<network_load_per_area, i>>
    /\ UNCHANGED <<features, doc, doc_at_start, writes, system_parameters_data, ret,
                   connected_features, reordered_features, network_data, des_method,
                   network, autosized_design_flow_rate>>

\* size_area_proportional, loop body: the load of GHE i is stored
AssignAreaProportional ==
    /\ UNCHANGED unit_vars
    /\ pc = "assign"
    /\ des_method = AREAPROPORTIONAL
    /\ LET g == GheIndexes(network)[i]
       IN  network' = [network EXCEPT ![g].ground_loads =
                          AreaProportionalLoad(network_load_per_area, network[g].area)]
    /\ pc' = "ghe_size"
    /\ UNCHANGED <<features, doc, doc_at_start, writes, system_parameters_data, error, ret,
                   connected_features, reordered_features, network_data, des_method, i,
                   network_load_per_area, autosized_design_flow_rate>>

\* size_to_upstream_equipment, loop body: the load of GHE i is stored
AssignUpstream ==
    /\ UNCHANGED unit_vars
    /\ pc = "assign"
    /\ des_method = UPSTREAM
    /\ LET g == GheIndexes(network)[i]
       IN  network' = [network EXCEPT ![g].ground_loads = UpstreamLoad(network, i)]
    /\ pc' = "ghe_size"
    /\ UNCHANGED <<features, doc, doc_at_start, writes, system_parameters_data, error, ret,
                   connected_features, reordered_features, network_data, des_method, i,
                   network_load_per_area, autosized_design_flow_rate>>

\* self.network[ghe_index].size(output_path) of either loop
GheSize ==
    /\ UNCHANGED unit_vars
    /\ pc = "ghe_size"
    /\ LET g == GheIndexes(network)[i]
       IN  \E outcome \in EngineOutcomes :
             /\ network' = [network EXCEPT ![g] = ghe_after_size(@, outcome)]
             /\ IF ghe_size_error(outcome) # None
                THEN /\ Abort(ghe_size_error(outcome))
                     /\ i' = i
                ELSE /\ i' = i + 1
                     /\ pc' = AfterGhe(network, i)
                     /\ error' = error
    /\ UNCHANGED <<features, doc, doc_at_start, writes, system_parameters_data, ret,
                   connected_features, reordered_features, network_data, des_method,
                   network_load_per_area, autosized_design_flow_rate>>

\* network.size_network(system_parameter_path)
SizeNetwork ==
    /\ UNCHANGED unit_vars
    /\ pc = "size_network"
    /\ autosized_design_flow_rate' = NetworkDesignVolFlow(network, doc.flow_rate)
    /\ pc' = "update_sys_params"
    /\ UNCHANGED <<features, doc, doc_at_start, writes, system_parameters_data, error, ret,
                   connected_features, reordered_features, network_data, des_method,
                   network, i, network_load_per_area>>

\* network.update_sys_params(...) and the return of the worker
UpdateSysParams ==
    /\ UNCHANGED unit_vars
    /\ pc = "update_sys_params"
    /\ doc' = update_sys_params(doc, network, size_network(autosized_design_flow_rate))
    /\ writes' = writes + 1
    /\ ret' = Returned(0)
    /\ pc' = "done"
    /\ UNCHANGED <<features, doc_at_start, system_parameters_data, error,
                   connected_features, reordered_features, network_data, des_method,
                   network, i, network_load_per_area, autosized_design_flow_rate>>

Next ==
    \/ LoadInputs
    \/ GetConnectedFeatures
    \/ ReorderConnectedFeatures
    \/ ConvertFeatures
    \/ SetGheDesignMethod
    \/ AddComponent
    \/ SizeGhe
    \/ AssignAreaProportional
    \/ AssignUpstream
    \/ GheSize
    \/ SizeNetwork
    \/ UpdateSysParams

Spec == Init /\ [][Next]_vars

(* ------------------- the resolver on flagged documents ----------------- *)
\* documents in which at most one Ground Heat Exchanger carries the
\* loop-start flag; the resolver is called on a fresh Network
InitTopo ==
    /\ \E kinds \in [NodeIds -> {Building, GroundHeatExchanger}], cs \in ConnSeqs :
         \E flag \in {None} \cup {n \in NodeIds : kinds[n] = GroundHeatExchanger} :
            features = Document(kinds, flag, cs)
    /\ doc = SysParamFile(<<"U", "P", "S", "T", "R", "E", "A", "M">>, 1, NoRate)
    /\ doc_at_start = doc
    /\ system_parameters_data = doc
    /\ pc = "get_connected"
    /\ Fresh

NextTopo == GetConnectedFeatures \/ ReorderConnectedFeatures

SpecTopo == InitTopo /\ [][NextTopo]_vars

(* ------------------ the sizing methods on any network ------------------ *)
ComponentId(j) == <<"component", j>>

\* what can stand at one position of a network: an ETS with any hourly
\* loads, or an autosized GHE with any area
ComponentChoices ==
    {EtsComponent(None, l) : l \in LoadArrays}
    \cup {GheComponent(None, a, Autosized, 0) : a \in 1..MaxArea}

\* the primary pump followed by the chosen components, ids by position
NetworkOf(cs) ==
    <<Named(PumpComponent(ComponentId(0)), PrimaryPumpName)>> \o
    [j \in 1..Len(cs) |->
        [cs[j] EXCEPT !.id = ComponentId(j), !.name = [k \in 1..j |-> "A"]]]

\* size_ghe is called on a network built with the add_* methods
InitAlloc ==
    /\ \E cs \in UNION {[1..n -> ComponentChoices] : n \in 0..MaxComponents} :
         network = NetworkOf(cs)
    /\ \E m \in MethodStrings, r \in HeatSourceRates :
         /\ doc = SysParamFile(m, 1, r)
         /\ des_method = set_ghe_design_method(m)
    /\ doc_at_start = doc
    /\ system_parameters_data = doc
    /\ features = <<>>
    /\ pc = "size_ghe"
    /\ writes = 0
    /\ error = None
    /\ ret = NotReturned
    /\ connected_features = <<>>
    /\ reordered_features = <<>>
    /\ network_data = <<>>
    /\ i = 0
    /\ network_load_per_area = <<>>
    /\ autosized_design_flow_rate = RatOfInt(0)
    /\ NoUnit

NextAlloc == SizeGhe \/ AssignAreaProportional \/ AssignUpstream \/ GheSize

SpecAlloc == InitAlloc /\ [][NextAlloc]_vars

(* ------------------- the worker on named features --------------------- *)
\* names a feature of the document can carry
NameSet == {<<"a">>, <<"A", " ">>, <<"e">>}

\* the document with the name of every building and district system set
Renamed(fs, names) ==
    [j \in 1..Len(fs) |->
        IF fs[j].type = ThermalConnector THEN fs[j]
        ELSE [fs[j] EXCEPT !.name = names[fs[j].id]]]

\* the connectors of the loop A -> B -> C -> A
LoopConnectors == << <<"A", "B">>, <<"B", "C">>, <<"C", "A">> >>

\* a run of the worker on the loop, its features named in any way
InitNames ==
    /\ \E kinds \in [NodeIds -> {Building, GroundHeatExchanger}],
          names \in [NodeIds -> NameSet] :
          features = Renamed(Document(kinds, None, LoopConnectors), names)
    /\ \E m \in MethodStrings : doc = SysParamFile(m, 1, NoRate)
    /\ doc_at_start = doc
    /\ system_parameters_data = None
    /\ pc = "start"
    /\ Fresh

SpecNames == InitNames /\ [][Next]_vars

(* -------------------- components used on their own -------------------- *)
\* COPs of the heat pumps, and the properties of the pumps and fans
CopValues == {Rat(5, 2), RatOfInt(3), Rat(7, 2)}
PumpProps ==
    {[design_flow_rate |-> 0, design_head |-> 0,
      motor_efficiency |-> RatOfInt(1), motor_inefficiency_to_fluid_stream |-> RatOfInt(1)],
     [design_flow_rate |-> 1, design_head |-> 2,
      motor_efficiency |-> Rat(1, 2), motor_inefficiency_to_fluid_stream |-> Rat(1, 2)],
     [design_flow_rate |-> 1, design_head |-> 2,
      motor_efficiency |-> Rat(9, 10), motor_inefficiency_to_fluid_stream |-> RatOfInt(0)]}
FanProps ==
    {[design_flow_rate |-> 0, design_head |-> 0],
     [design_flow_rate |-> 2, design_head |-> 3]}

\* Pump(data)
Pump(props) ==
    [des_flow |-> props.design_flow_rate, des_head |-> props.design_head,
     motor_efficiency |-> props.motor_efficiency,
     motor_inefficiency_to_fluid |-> props.motor_inefficiency_to_fluid_stream]

\* only the motor heat that reaches the fluid is returned
Pump_get_loads_MotorHeatOnly(pump, num_loads) ==
    LET hydraulic_power == RatOfInt(pump.des_flow * pump.des_head)
        pump_heat == RatMul(hydraulic_power, RatSub(RatOfInt(1), pump.motor_efficiency))
    IN  [h \in 1..num_loads |-> RatMul(pump_heat, pump.motor_inefficiency_to_fluid)]

\* Pump.get_loads(num_loads): hydraulic power plus the motor heat that
\* reaches the fluid, num_loads times
Pump_get_loads(pump, num_loads) ==
    LET hydraulic_power == RatOfInt(pump.des_flow * pump.des_head)
        pump_heat == RatMul(hydraulic_power, RatSub(RatOfInt(1), pump.motor_efficiency))
        pump_heat_to_fluid == RatMul(pump_heat, pump.motor_inefficiency_to_fluid)
    IN  [h \in 1..num_loads |-> RatAdd(hydraulic_power, pump_heat_to_fluid)]

\* Fan(data)
Fan(props) == [des_flow |-> props.design_flow_rate, des_head |-> props.design_head]

\* the pumps and fans built on their own, and the length asked of a pump
PumpData ==
    {[kind |-> PUMP, props |-> pr, num_loads |-> n] : pr \in PumpProps, n \in {1, Hours}}
FAN == "FAN"
FanData == {[kind |-> FAN, props |-> pr] : pr \in FanProps}

\* Fan.get_loads(): the hydraulic power for every hour of the year
Fan_get_loads(fan) == [h \in 1..Hours |-> RatOfInt(fan.des_flow * fan.des_head)]

\* HeatPump(data) of heat_pump.py
HeatPump(props) == [cop_c |-> props.cop_c, cop_h |-> props.cop_h]

\* the COP of the other mode taken for each load
calc_src_side_load_SwappedCop(hp, space_load) ==
    IF space_load >= 0
    THEN RatMul(RatOfInt(space_load), RatSub(RatOfInt(1), RatDiv(RatOfInt(1), hp.cop_c)))
    ELSE RatMul(RatOfInt(space_load), RatAdd(RatOfInt(1), RatDiv(RatOfInt(1), hp.cop_h)))

\* HeatPump.calc_src_side_load: a load >= 0 is a heating load, a negative
\* one a cooling load
calc_src_side_load(hp, space_load) ==
    IF space_load >= 0
    THEN RatMul(RatOfInt(space_load), RatSub(RatOfInt(1), RatDiv(RatOfInt(1), hp.cop_h)))
    ELSE RatMul(RatOfInt(space_load), RatAdd(RatOfInt(1), RatDiv(RatOfInt(1), hp.cop_c)))

\* HeatPump.get_loads
HeatPump_get_loads(hp, loads) ==
    [h \in 1..Len(loads) |-> calc_src_side_load(hp, loads[h])]

\* DomesticHotWater(data) and its calc_src_side_load
DomesticHotWater(props) == [cop |-> props.cop_heat_pump_hot_water]
dhw_calc_src_side_load(dhw, dhw_load) ==
    RatMul(RatOfInt(dhw_load), RatSub(RatOfInt(1), RatDiv(RatOfInt(1), dhw.cop)))

HEATPUMP == "HEATPUMP"
HEATING == "HEATING"
COOLING == "COOLING"
DHW == "DHW"

\* COPs and space loads a heat pump is tried with
HpCops == CopValues \cup {Rat(1, 2), RatOfInt(1)}
SpaceLoads == {-3, -1, 0, 1, 3}
HeatPumpData == [kind : {HEATPUMP}, cop_c : HpCops, cop_h : HpCops, space_load : SpaceLoads]
DhwData == [kind : {DHW}, cop_heat_pump_hot_water : HpCops, space_load : SpaceLoads]

\* the heat pump ETS builds from a name, one COP and a HeatPumpType
HeatPumpOfType(cop, hp_type) == [cop |-> cop, hp_type |-> hp_type]

\* get_loads of that heat pump: heating and dhw loads L give L(1 - 1/COP),
\* cooling loads L give L(1 + 1/COP)
HeatPumpOfType_get_loads(hp, loads) ==
    [h \in 1..Len(loads) |->
        IF hp.hp_type = COOLING
        THEN RatMul(loads[h], RatAdd(RatOfInt(1), RatDiv(RatOfInt(1), hp.cop)))
        ELSE RatMul(loads[h], RatSub(RatOfInt(1), RatDiv(RatOfInt(1), hp.cop)))]

\* the columns of a building's load file, the same value in every hour
EtsLoadFiles ==
    {[TotalHeatingSensibleLoad |-> [h \in 1..Hours |-> q],
      TotalCoolingSensibleLoad |-> [h \in 1..Hours |-> c],
      TotalWaterHeating |-> [h \in 1..Hours |-> w]] :
        q \in {0, 3}, c \in {-3, 0}, w \in {0, 3}}

\* the data ETS is built from
EtsData ==
    [cop_h : CopValues, cop_c : CopValues, cop_heat_pump_hot_water : {RatOfInt(3)},
     load_side_pump : PumpProps, source_side_pump : PumpProps, fan : FanProps,
     space_loads_file : EtsLoadFiles]

\* ETS(data): the attributes __init__ sets; space_loads is not among them
ETS(data) ==
    [kind |-> ENERGYTRANSFERSTATION,
     heating_heatpump |-> HeatPumpOfType(data.cop_h, HEATING),
     cooling_heatpump |-> HeatPumpOfType(data.cop_c, COOLING),
     dhw_heatpump |-> HeatPumpOfType(data.cop_heat_pump_hot_water, DHW),
     load_pump |-> Pump(data.load_side_pump),
     src_pump |-> Pump(data.source_side_pump),
     load_fan |-> Fan(data.fan),
     heating_loads |-> data.space_loads_file.TotalHeatingSensibleLoad,
     cooling_loads |-> [h \in 1..Len(data.space_loads_file.TotalCoolingSensibleLoad) |->
                           Abs(data.space_loads_file.TotalCoolingSensibleLoad[h])],
     dhw_loads |-> data.space_loads_file.TotalWaterHeating]

\* ETS.get_loads: len(self.space_loads) reads an attribute; without it the
\* call raises AttributeError before any load is computed
ETS_get_loads(ets) ==
    IF "space_loads" \notin DOMAIN ets THEN Raise("AttributeError")
    ELSE LET num_loads == Len(ets.space_loads)
             tu_fan_clg_load == Fan_get_loads(ets.load_fan)
             load_side_pump_clg_load == Pump_get_loads(ets.load_pump, num_loads)
             tot_clg_load == [h \in 1..num_loads |->
                 RatAdd(RatAdd(RatOfInt(ets.cooling_loads[h]), tu_fan_clg_load[h]),
                        load_side_pump_clg_load[h])]
             src_load_clg == HeatPumpOfType_get_loads(ets.cooling_heatpump, tot_clg_load)
             src_load_htg == HeatPumpOfType_get_loads(ets.heating_heatpump,
                                 [h \in 1..Hours |-> RatOfInt(ets.heating_loads[h])])
             src_load_dhw == HeatPumpOfType_get_loads(ets.dhw_heatpump,
                                 [h \in 1..Hours |-> RatOfInt(ets.dhw_loads[h])])
             src_load_src_pump == Pump_get_loads(ets.src_pump, num_loads)
         IN  Return([h \in 1..num_loads |->
                 RatSub(RatAdd(RatAdd(src_load_htg[h], src_load_dhw[h]), src_load_src_pump[h]),
                        src_load_clg[h])])

\* a building's load file: n rows, one every step hours from hour 0, as
\* read by pandas; the heating column takes any values
LoadFiles ==
    UNION {{[times |-> [k \in 1..n |-> (k - 1) * step],
             TotalHeatingSensibleLoad |-> q,
             TotalCoolingSensibleLoad |-> [k \in 1..n |-> -3],
             TotalWaterHeating |-> [k \in 1..n |-> 3]] :
                step \in {1, 2}, q \in [1..n -> {0, 3}]} : n \in 0..MaxRows}

\* resample("h").interpolate(method="linear") followed by iloc[:HOURS_IN_YEAR]
\* on a column whose rows stand at whole hours from hour 0: one value per
\* hour up to the last row, linear between the rows, cut to the year
ResampleHourly(times, column) ==
    LET last == times[Len(times)]
        RowAt(h) == CHOOSE k \in 1..Len(times) : times[k] = h
        Known(h) == \E k \in 1..Len(times) : times[k] = h
        Prev(h) == CHOOSE p \in 0..h : Known(p) /\ \A r \in (p + 1)..h : ~Known(r)
        Succ(h) == CHOOSE q \in h..last : Known(q) /\ \A r \in h..(q - 1) : ~Known(r)
        At(h) == IF Known(h) THEN RatOfInt(column[RowAt(h)])
                 ELSE LET p == Prev(h)
                          q == Succ(h)
                          vp == column[RowAt(p)]
                          vq == column[RowAt(q)]
                      IN  RatAdd(RatOfInt(vp), Rat((vq - vp) * (h - p), q - p))
        rows == IF last + 1 < Hours THEN last + 1 ELSE Hours
    IN  [h \in 1..rows |-> At(h - 1)]

\* Network.make_loads_hourly: the file is read again, the last row is
\* repeated one day later, and the three columns are resampled; index[-1]
\* of a file without rows raises IndexError
make_loads_hourly(file, ets) ==
    IF Len(file.times) = 0 THEN Raise("IndexError")
    ELSE LET n == Len(file.times)
             times == Append(file.times, file.times[n] + DayHours)
             Anchored(column) == Append(column, column[n])
         IN  Return([ets EXCEPT
                 !.heating_loads = ResampleHourly(times, Anchored(file.TotalHeatingSensibleLoad)),
                 !.cooling_loads = ResampleHourly(times, Anchored(file.TotalCoolingSensibleLoad)),
                 !.dhw_loads = ResampleHourly(times, Anchored(file.TotalWaterHeating))])

\* Network.add_ets_to_network from ETS(ets_data) on: loads that are not
\* hourly for a year are made hourly; the ETS that is appended
add_ets_to_network(data) ==
    LET ets == ETS(data)
    IN  IF \E lst \in {ets.heating_loads, ets.cooling_loads, ets.dhw_loads} : Len(lst) # Hours
        THEN make_loads_hourly(data.space_loads_file, ets)
        ELSE Return(ets)

LOADFILE == "LOADFILE"
\* the ETS data of a building whose load file is one of LoadFiles
EtsFileData ==
    {[kind |-> LOADFILE, cop_h |-> RatOfInt(3), cop_c |-> RatOfInt(3),
      cop_heat_pump_hot_water |-> RatOfInt(3),
      load_side_pump |-> pr, source_side_pump |-> pr,
      fan |-> [design_flow_rate |-> 0, design_head |-> 0],
      space_loads_file |-> f] :
        pr \in PumpProps, f \in LoadFiles}

(* ------------------------------- GHE sizing ---------------------------- *)
GHE_KIND == "GHE"
\* a summary the borefield engine writes
Summaries ==
    {[number_of_boreholes |-> n, active_borehole_length |-> 100 + n] : n \in 1..MaxBoreholes}
\* the output directory of a GHE: missing, or holding an input file and
\* possibly a summary
NoDir == [exists |-> FALSE, in_json |-> FALSE, summary |-> <<>>]
GheDirs ==
    {NoDir} \cup {[exists |-> TRUE, in_json |-> TRUE, summary |-> sm] :
                    sm \in {<<>>} \cup {<<x>> : x \in Summaries}}
\* one call of ghedesigner's run: it raises, it returns without having
\* written a summary, or it returns having written one
RunOutcomes ==
    {[raises |-> TRUE, summary |-> <<>>], [raises |-> FALSE, summary |-> <<>>]} \cup
    {[raises |-> FALSE, summary |-> <<x>>] : x \in Summaries}

\* the data a GHE is built from, the directory it writes to and what the
\* engine does when it is run
GheData ==
    [kind : {GHE_KIND}, design_method : {Autosized, PreDesigned},
     borehole_x_coordinates : 0..MaxBoreholes, borehole_y_coordinates : 0..MaxBoreholes,
     borehole_length : {PreDesignedLength}, ghe_dir : GheDirs, engine : RunOutcomes]

\* GHE(data): nbh and bh_length are None
GHE(data) ==
    [design_method |-> data.design_method,
     borehole_x_coordinates |-> data.borehole_x_coordinates,
     borehole_y_coordinates |-> data.borehole_y_coordinates,
     borehole_length |-> data.borehole_length,
     nbh |-> <<>>, bh_length |-> <<>>]

\* an input file prepared without taking the count and the length
get_input_file_data_NoCount(ghe) == [raised |-> None, ghe |-> ghe]

\* GHE.get_input_file_data: a pre-designed GHE takes nbh from the number of
\* its coordinates and bh_length from the configured length, or raises
\* ValueError when the two coordinate lists differ in length
get_input_file_data(ghe) ==
    IF ghe.design_method = PreDesigned
    THEN IF ghe.borehole_x_coordinates # ghe.borehole_y_coordinates
         THEN [raised |-> "ValueError", ghe |-> ghe]
         ELSE [raised |-> None,
               ghe |-> [ghe EXCEPT !.nbh = <<ghe.borehole_x_coordinates>>,
                                   !.bh_length = <<ghe.borehole_length>>]]
    ELSE [raised |-> None, ghe |-> ghe]

\* an input file written into the directory as it is found
write_input_file_KeepDirectory(ghe, ghe_dir) ==
    LET d == get_input_file_data(ghe)
    IN  IF d.raised # None THEN [raised |-> d.raised, ghe |-> d.ghe, ghe_dir |-> ghe_dir]
        ELSE [raised |-> None, ghe |-> d.ghe,
              ghe_dir |-> [ghe_dir EXCEPT !.exists = TRUE, !.in_json = TRUE]]

\* GHE.write_input_file: the directory is removed when it exists, created
\* again, and in.json is written into it
write_input_file(ghe, ghe_dir) ==
    LET d == get_input_file_data(ghe)
    IN  IF d.raised # None THEN [raised |-> d.raised, ghe |-> d.ghe, ghe_dir |-> ghe_dir]
        ELSE [raised |-> None, ghe |-> d.ghe,
              ghe_dir |-> [exists |-> TRUE, in_json |-> TRUE, summary |-> <<>>]]

\* GHE.update_config: an autosized GHE reads SimulationSummary.json of the
\* directory, load_json raising when it is not there; a pre-designed one
\* reads nothing
update_config(ghe, results_dir) ==
    IF ghe.design_method # PreDesigned
    THEN IF results_dir.summary = <<>>
         THEN [raised |-> "FileNotFoundError", ghe |-> ghe]
         ELSE [raised |-> None,
               ghe |-> [ghe EXCEPT !.nbh = <<results_dir.summary[1].number_of_boreholes>>,
                                   !.bh_length = <<results_dir.summary[1].active_borehole_length>>]]
    ELSE [raised |-> None, ghe |-> ghe]

\* GHE.size: write_input_file, run, update_config; engine_calls counts the
\* calls of run
GHE_size(ghe, ghe_dir, engine) ==
    LET w == write_input_file(ghe, ghe_dir)
        ran == [w.ghe_dir EXCEPT !.summary = IF engine.summary # <<>> THEN engine.summary ELSE @]
        u == update_config(w.ghe, ran)
    IN  IF w.raised # None
        THEN [raised |-> w.raised, ghe |-> w.ghe, ghe_dir |-> w.ghe_dir, engine_calls |-> 0]
        ELSE IF engine.raises
        THEN [raised |-> "engine_error", ghe |-> w.ghe, ghe_dir |-> w.ghe_dir, engine_calls |-> 1]
        ELSE [raised |-> u.raised, ghe |-> u.ghe, ghe_dir |-> ran, engine_calls |-> 1]

(* --------------------------- building downselect ----------------------- *)
GEOJSON == "GEOJSON"
\* a GeoJSON feature list of buildings and GHEs and the geojson_id values of
\* the buildings of a system-parameter file
GeoJsonFiles ==
    {[kind |-> GEOJSON,
      features |-> [k \in 1..Len(ids) |-> [id |-> ids[k], type |-> kinds[k]]],
      sys_param_building_ids |-> sp] :
        ids \in {<<"A", "B", "C">>, <<"C", "A", "B">>},
        kinds \in [1..3 -> {Building, GroundHeatExchanger}],
        sp \in SUBSET {"A", "B", "C"}}

\* the part of run_sizer_from_cli_worker that rebuilds geojson_data["features"]:
\* building_features is every feature of type Building; the ids of the
\* system-parameter file are compared with theirs and a difference is logged
downselect_buildings(geojson_features, sys_param_building_ids) ==
    LET building_features == SelectSeq(geojson_features, IsBuilding)
        geojson_feature_ids == {building_features[k].id : k \in 1..Len(building_features)}
    IN  [features |-> RebuildFeatures(geojson_features),
         logged_error |-> (Len(building_features) = 0
                           \/ sys_param_building_ids # geojson_feature_ids)]

(* ------------------------------- loop order --------------------------- *)
LOOPORDER == "LOOPORDER"
CentralAmbientWater == "Central Ambient Water"
\* source_types: the field a source's id is filed under, None for a feature
\* that is not a source
source_types(district_type) ==
    IF district_type = GroundHeatExchanger THEN "list_ghe_ids_in_group"
    ELSE IF district_type = CentralAmbientWater THEN "list_source_ids_in_group"
    ELSE None

\* defaultdict(list)
EmptyGroup ==
    [list_bldg_ids_in_group |-> <<>>, list_ghe_ids_in_group |-> <<>>,
     list_source_ids_in_group |-> <<>>]

\* strip_and_order: the non-empty lists of a group with their keys,
\* buildings first
strip_and_order(group_dict) ==
    LET keys == <<"list_bldg_ids_in_group", "list_ghe_ids_in_group", "list_source_ids_in_group">>
        NonEmpty(k) == group_dict[k] # <<>>
        kept == SelectSeq(keys, NonEmpty)
    IN  [j \in 1..Len(kept) |-> <<kept[j], group_dict[kept[j]]>>]

\* group_has_required_data: at least one building and one source
group_has_required_data(group) ==
    /\ group.list_bldg_ids_in_group # <<>>
    /\ (group.list_ghe_ids_in_group # <<>> \/ group.list_source_ids_in_group # <<>>)

\* "Finish last group if valid"
LoopOrderClose(st) ==
    IF group_has_required_data(st.feature_group)
    THEN Append(st.loop_order_list, strip_and_order(st.feature_group))
    ELSE st.loop_order_list

\* one iteration of "for feature in reordered_features"
LoopOrderStep(st, feature) ==
    LET field == source_types(feature.district_system_type)
    IN  IF field # None
        THEN LET closed == group_has_required_data(st.feature_group)
                 group == IF closed THEN EmptyGroup ELSE st.feature_group
             IN  [loop_order_list |-> IF closed
                                      THEN Append(st.loop_order_list,
                                                  strip_and_order(st.feature_group))
                                      ELSE st.loop_order_list,
                  feature_group |-> [group EXCEPT ![field] = Append(@, feature.id)]]
        ELSE [st EXCEPT !.feature_group.list_bldg_ids_in_group = Append(@, feature.id)]

RECURSIVE LoopOrderFold(_, _)
LoopOrderFold(st, fs) ==
    IF fs = <<>> THEN st ELSE LoopOrderFold(LoopOrderStep(st, Head(fs)), Tail(fs))

\* the list the worker writes to _loop_order.json
loop_order_list(reordered) ==
    LoopOrderClose(LoopOrderFold([loop_order_list |-> <<>>, feature_group |-> EmptyGroup],
                                 reordered))

\* feature lists in loop order: the first is a GHE, ids by position
LoopLists ==
    UNION {{[kind |-> LOOPORDER,
             features |-> [k \in 1..n |-> [id |-> k, district_system_type |-> t[k]]]] :
               t \in {x \in [1..n -> {None, GroundHeatExchanger, CentralAmbientWater}] :
                         x[1] = GroundHeatExchanger}} :
           n \in 1..(MaxComponents + 1)}

(* ------------------------------ command line -------------------------- *)
COMMANDLINE == "ThermalNetworkCommandLine"
\* a path option of the command line: not given, or given and naming a file
\* that is or is not there when the options are parsed
PathOptions == {"omitted", "missing", "exists"}
\* the command line, whether each file is still there when the worker looks
\* for it, and whether the rest of the worker raises
CommandLines ==
    [kind : {COMMANDLINE}, geojson_file : PathOptions, system_parameter_file : PathOptions,
     geojson_at_worker : BOOLEAN, system_parameter_at_worker : BOOLEAN,
     sizing : {"completes", "raises"}]

\* run_sizer_from_cli_worker seen from its caller: 1 when one of the files
\* is not there, an exception when a path is None or the sizing raises,
\* otherwise 0
run_sizer_from_cli_worker(cl) ==
    IF cl.geojson_file = "omitted" THEN Raise("AttributeError")
    ELSE IF ~cl.geojson_at_worker THEN Return(1)
    ELSE IF cl.system_parameter_file = "omitted" THEN Raise("AttributeError")
    ELSE IF ~cl.system_parameter_at_worker THEN Return(1)
    ELSE IF cl.sizing = "raises" THEN Raise("sizing_error")
    ELSE Return(0)

\* the exit status of the click command run_sizer_from_cli is wrapped in:
\* 2 when a path option names a file that is not there, 1 when the callback
\* raises, and 0 when it returns, the returned value being dropped
ThermalNetworkCommandLine(cl) ==
    IF "missing" \in {cl.geojson_file, cl.system_parameter_file} THEN 2
    ELSE LET r == run_sizer_from_cli_worker(cl)
         IN  IF r.raised # None THEN 1 ELSE 0

(* -------------------------- update_sys_params ------------------------- *)
SYSPARAMS == "SYSPARAMS"
\* the *_autosized flags of a system-parameter file: missing, true or false
FlagValues == {<<>>, <<TRUE>>, <<FALSE>>}
\* a network after sizing, of GHEs of distinct ids whose design method is
\* the one of their borefields entry
SizedNetworks ==
    {net \in UNION {[1..n -> [id : NodeIds, nbh : 1..MaxBoreholes]] : n \in 0..2} :
        \A j, l \in 1..Len(net) : j # l => net[j].id # net[l].id}
SizedGhe(g) ==
    [GheComponent(g.id, RunBorefields[g.id].area, RunBorefields[g.id].design_method,
                  RunBorefields[g.id].coords)
        EXCEPT !.nbh = g.nbh, !.bh_length = 100 + g.nbh, !.sized = TRUE]
\* a system-parameter file with any flags, a sized network, and the values
\* size_network left on it (the placeholders when it was not called)
SysParamsData ==
    {[kind |-> SYSPARAMS,
      d |-> [SysParamFile(<<"U", "P", "S", "T", "R", "E", "A", "M">>, 1, NoRate) EXCEPT
                !.hydraulic_diameter_autosized = fd, !.hydraulic_diameter = RatOfInt(7),
                !.pump_design_head_autosized = fh, !.pump_design_head = RatOfInt(7),
                !.pump_flow_rate_autosized = ff, !.pump_flow_rate = RatOfInt(7)],
      network |-> [j \in 1..Len(net) |-> SizedGhe(net[j])],
      sized |-> sz] :
        fd \in FlagValues, fh \in FlagValues, ff \in FlagValues, net \in SizedNetworks,
        sz \in {size_network(RatOfInt(0)), size_network(Rat(1, 1000)),
                [autosized_hydraulic_dia |-> RatOfInt(0),
                 autosized_design_pump_head |-> RatOfInt(0),
                 autosized_design_flow_rate |-> RatOfInt(0)]}}

(* ------------------------------ pipe sizing ---------------------------- *)
PIPE == "PIPE"
\* a pipe the tests size, with the flow and the design loss per length; the
\* loss of a positive flow takes any value at each size of the catalog
PipeData ==
    {[kind |-> PIPE,
      pipe |-> Pipe(11, length, [d \in {CatalogDiameters[k] : k \in 1..MaxPipeSizes} |->
                                   RatOfInt(t[CHOOSE k \in 1..MaxPipeSizes : CatalogDiameters[k] = d])]),
      vol_flow_rate |-> q,
      design_pressure_loss_per_length |-> RatOfInt(target)] :
        length \in {1, 2}, t \in [1..MaxPipeSizes -> {0, 2, 4}],
        q \in {RatOfInt(0), Rat(1, 1000)}, target \in {1, 3}}

(* ------------------------------ waste heat ----------------------------- *)
\* str.endswith
str_endswith(s, suffix) ==
    /\ Len(s) >= Len(suffix)
    /\ SubSeq(s, Len(s) - Len(suffix) + 1, Len(s)) = suffix

MosSuffix == <<".", "m", "o", "s">>
Digits == <<"0", "1", "2", "3", "4", "5", "6", "7", "8", "9">>
IsDigit(c) == \E k \in 1..Len(Digits) : Digits[k] = c
DigitValue(c) == (CHOOSE k \in 1..Len(Digits) : Digits[k] = c) - 1

\* int() of a string of digits, and 10 ** n
RECURSIVE DigitsValue(_)
DigitsValue(ds) ==
    IF ds = <<>> THEN 0 ELSE 10 * DigitsValue(SubSeq(ds, 1, Len(ds) - 1)) + DigitValue(ds[Len(ds)])
RECURSIVE PowerOfTen(_)
PowerOfTen(n) == IF n = 0 THEN 1 ELSE 10 * PowerOfTen(n - 1)

\* float(s) on a string of an optional sign, digits and at most one point:
\* <<x>> for the number x, <<>> where float raises ValueError
float(s) ==
    LET signed == s # <<>> /\ s[1] \in {"-", "+"}
        body == IF signed THEN Tail(s) ELSE s
        points == {k \in 1..Len(body) : body[k] = "."}
        digits == SelectSeq(body, IsDigit)
        frac == IF points = {} THEN 0 ELSE Len(body) - (CHOOSE k \in points : TRUE)
        x == Rat(DigitsValue(digits), PowerOfTen(frac))
    IN  IF /\ digits # <<>>
           /\ Cardinality(points) <= 1
           /\ Len(digits) + Cardinality(points) = Len(body)
        THEN <<IF signed /\ s[1] = "-" THEN RatSub(RatOfInt(0), x) ELSE x>>
        ELSE <<>>

\* heat_source_rate values of a system-parameter file: numbers, a text
\* that is no number, and the name of a schedule file
RateStrings ==
    {<<"1">>, <<"0">>, <<"-", "1">>, <<"1", ".", "5">>, <<"x">>, <<"s", ".", "m", "o", "s">>}

\* what stands at the place of the schedule file: nothing, a file that
\* cannot be read, a file without data, or rows of (hour, Watts)
MosMissing == [state |-> "missing", data |-> <<>>]
MosUnreadable == [state |-> "unreadable", data |-> <<>>]
MosFiles ==
    {MosMissing, MosUnreadable,
     [state |-> "ok", data |-> <<>>],
     [state |-> "ok", data |-> <<<<0, 2>>>>],
     [state |-> "ok", data |-> <<<<0, 2>>, <<1, 4>>>>],
     [state |-> "ok", data |-> <<<<0, 2>>, <<Hours, 4>>>>]}

\* the schedule made hourly: a last row before the end of the year is
\* repeated at the end of the year, then resample, interpolate and cut
waste_heat_values(data) ==
    LET n == Len(data)
        rows == IF data[n][1] < Hours THEN Append(data, <<Hours, data[n][2]>>) ELSE data
    IN  ResampleHourly([k \in 1..Len(rows) |-> rows[k][1]], [k \in 1..Len(rows) |-> rows[k][2]])

WASTEHEATSOURCE == "WASTEHEATSOURCE"
\* the data WasteHeatSource is built from, and the file its schedule names
WasteHeatSourceData ==
    [kind : {WASTEHEATSOURCE}, whs_name : {<<"h", "s">>}, heat_source_rate : RateStrings,
     system_parameter_path : {None, "path"}, mos : MosFiles]

\* WasteHeatSource.calculate_loads: the network_loads it leaves
calculate_loads(heat_source_rate, system_parameter_path, mos) ==
    LET zeros == [h \in 1..Hours |-> RatOfInt(0)]
    IN  IF str_endswith(heat_source_rate, MosSuffix)
        THEN IF system_parameter_path = None THEN zeros
             ELSE IF mos.state = "missing" THEN zeros
             ELSE IF mos.state = "unreadable" THEN zeros
             ELSE IF Len(mos.data) = 0 THEN zeros
             ELSE [h \in 1..Hours |-> RatSub(zeros[h], waste_heat_values(mos.data)[h])]
        ELSE IF float(heat_source_rate) = <<>> THEN zeros
             ELSE [h \in 1..Hours |-> RatSub(zeros[h], float(heat_source_rate)[1])]

\* WasteHeatSource(whs_name, data)
WasteHeatSource(data) ==
    [name |-> str_upper(str_strip(data.whs_name)),
     heat_source_rate |-> data.heat_source_rate,
     system_parameter_path |-> data.system_parameter_path,
     network_loads |-> calculate_loads(data.heat_source_rate, data.system_parameter_path, data.mos)]

\* WasteHeatSource.get_loads
WasteHeatSource_get_loads(whs) == whs.network_loads

HEATSOURCEPARAMETERS == "heat_source_parameters"
\* a network with heat_source_parameters in its system parameters, the file
\* the schedule names, and the loads add_waste_heat_sources is given
HeatSourceParameters ==
    [kind : {HEATSOURCEPARAMETERS},
     heat_source_rate : {<<>>} \cup {<<r>> : r \in RateStrings},
     system_parameter_path : {None, "path"}, mos : MosFiles,
     total_network_loads : {[h \in 1..Hours |-> RatOfInt(a[h])] : a \in LoadArrays}]

\* maximum(total_network_loads - waste_heat_addition, 0)
ClampedAtZero(total_network_loads, waste_heat_addition) ==
    [h \in 1..Hours |->
        LET x == RatSub(total_network_loads[h], waste_heat_addition[h])
        IN  IF RatLess(x, RatOfInt(0)) THEN RatOfInt(0) ELSE x]

\* Network.add_waste_heat_sources on any heat_source_rate: a schedule is
\* loaded with no check of the path or the file, so None.parent raises
\* AttributeError, a file that is missing or unreadable raises in
\* ModelicaMOS, and one without data raises ValueError where the two column
\* names are set; only ValueError from float() is caught
Network_add_waste_heat_sources(net) ==
    IF net.heat_source_rate = <<>> THEN Return(net.total_network_loads)
    ELSE LET heat_source_rate == net.heat_source_rate[1]
         IN  IF str_endswith(heat_source_rate, MosSuffix)
             THEN IF net.system_parameter_path = None THEN Raise("AttributeError")
                  ELSE IF net.mos.state # "ok" THEN Raise("Exception")
                  ELSE IF Len(net.mos.data) = 0 THEN Raise("ValueError")
                  ELSE Return(ClampedAtZero(net.total_network_loads,
                                            waste_heat_values(net.mos.data)))
             ELSE IF float(heat_source_rate) = <<>> THEN Return(net.total_network_loads)
                  ELSE Return(ClampedAtZero(net.total_network_loads,
                          [h \in 1..Hours |-> float(heat_source_rate)[1]]))

\* a component is built on its own from its data, as the unit tests do
InitUnits ==
    /\ \/ \E data \in EtsData : obj = ETS(data)
       \/ obj \in HeatPumpData
       \/ obj \in DhwData
       \/ obj \in PumpData
       \/ obj \in FanData
       \/ obj \in EtsFileData
       \/ obj \in WasteHeatSourceData
       \/ obj \in PipeData
       \/ obj \in SysParamsData
       \/ obj \in GheData
       \/ obj \in LoopLists
       \/ obj \in GeoJsonFiles
       \/ /\ obj \in CommandLines
          /\ obj.geojson_file = "missing" => ~obj.geojson_at_worker
          /\ obj.system_parameter_file = "missing" => ~obj.system_parameter_at_worker
       \/ obj \in HeatSourceParameters
    /\ out = NotCalled
    /\ features = <<>>
    /\ doc = SysParamFile(<<"U", "P", "S", "T", "R", "E", "A", "M">>, 1, NoRate)
    /\ doc_at_start = doc
    /\ system_parameters_data = doc
    /\ pc = "unit"
    /\ writes = 0
    /\ error = None
    /\ ret = NotReturned
    /\ connected_features = <<>>
    /\ reordered_features = <<>>
    /\ network_data = <<>>
    /\ des_method = None
    /\ network = <<>>
    /\ i = 0
    /\ network_load_per_area = <<>>
    /\ autosized_design_flow_rate = RatOfInt(0)

net_vars == <<features, doc, doc_at_start, writes, system_parameters_data, pc, error, ret,
              connected_features, reordered_features, network_data, des_method, network,
              i, network_load_per_area, autosized_design_flow_rate>>

\* ets.get_loads()
EtsGetLoads ==
    /\ pc = "unit"
    /\ obj.kind = ENERGYTRANSFERSTATION
    /\ ~out.called
    /\ out' = ETS_get_loads(obj)
    /\ UNCHANGED <<obj, net_vars>>

\* HeatPump(data).get_loads([space_load])
HeatPumpGetLoads ==
    /\ pc = "unit"
    /\ obj.kind = HEATPUMP
    /\ ~out.called
    /\ out' = Return(HeatPump_get_loads(HeatPump(obj), <<obj.space_load>>))
    /\ UNCHANGED <<obj, net_vars>>

\* DomesticHotWater(data).calc_src_side_load(dhw_load)
DhwCalcSrcSideLoad ==
    /\ pc = "unit"
    /\ obj.kind = DHW
    /\ ~out.called
    /\ out' = Return(<<dhw_calc_src_side_load(DomesticHotWater(obj), obj.space_load)>>)
    /\ UNCHANGED <<obj, net_vars>>

\* Pump(data).get_loads(num_loads)
PumpGetLoads ==
    /\ pc = "unit"
    /\ obj.kind = PUMP
    /\ ~out.called
    /\ out' = Return(Pump_get_loads(Pump(obj.props), obj.num_loads))
    /\ UNCHANGED <<obj, net_vars>>

\* Fan(data).get_loads()
FanGetLoads ==
    /\ pc = "unit"
    /\ obj.kind = FAN
    /\ ~out.called
    /\ out' = Return(Fan_get_loads(Fan(obj.props)))
    /\ UNCHANGED <<obj, net_vars>>

\* network.add_ets_to_network(ets_data) on a fresh network
AddEtsToNetwork ==
    /\ pc = "unit"
    /\ obj.kind = LOADFILE
    /\ ~out.called
    /\ out' = add_ets_to_network(obj)
    /\ UNCHANGED <<obj, net_vars>>

\* WasteHeatSource(whs_name, data).get_loads()
WasteHeatSourceGetLoads ==
    /\ pc = "unit"
    /\ obj.kind = WASTEHEATSOURCE
    /\ ~out.called
    /\ out' = Return(WasteHeatSource_get_loads(WasteHeatSource(obj)))
    /\ UNCHANGED <<obj, net_vars>>

\* network.add_waste_heat_sources(total_network_loads)
AddWasteHeatSources ==
    /\ pc = "unit"
    /\ obj.kind = HEATSOURCEPARAMETERS
    /\ ~out.called
    /\ out' = Network_add_waste_heat_sources(obj)
    /\ UNCHANGED <<obj, net_vars>>

\* pipe.size_hydraulic_diameter(vol_flow_rate, design_pressure_loss_per_length)
SizeHydraulicDiameter ==
    /\ pc = "unit"
    /\ obj.kind = PIPE
    /\ ~out.called
    /\ out' = Return(size_hydraulic_diameter(obj.pipe, obj.vol_flow_rate,
                                             obj.design_pressure_loss_per_length))
    /\ UNCHANGED <<obj, net_vars>>

\* network.update_sys_params(system_parameter_path, output_directory_path)
UpdateSysParamsOf ==
    /\ pc = "unit"
    /\ obj.kind = SYSPARAMS
    /\ ~out.called
    /\ out' = Return(update_sys_params(obj.d, obj.network, obj.sized))
    /\ UNCHANGED <<obj, net_vars>>

\* GHE(data).size(output_path)
GheSizeOf ==
    /\ pc = "unit"
    /\ obj.kind = GHE_KIND
    /\ ~out.called
    /\ LET r == GHE_size(GHE(obj), obj.ghe_dir, obj.engine)
       IN  out' = [called |-> TRUE, raised |-> r.raised, value |-> r]
    /\ UNCHANGED <<obj, net_vars>>

\* the command is run from a shell
RunCommandLine ==
    /\ pc = "unit"
    /\ obj.kind = COMMANDLINE
    /\ ~out.called
    /\ LET parsed == "missing" \notin {obj.geojson_file, obj.system_parameter_file}
           r == run_sizer_from_cli_worker(obj)
       IN  out' = Return([exit_status |-> ThermalNetworkCommandLine(obj),
                          worker_called |-> parsed,
                          worker_raised |-> IF parsed THEN r.raised ELSE None,
                          worker_returned |-> IF parsed /\ r.raised = None
                                              THEN <<r.value>> ELSE <<>>])
    /\ UNCHANGED <<obj, net_vars>>

\* the worker rebuilds the feature list of a GeoJSON file
DownselectBuildings ==
    /\ pc = "unit"
    /\ obj.kind = GEOJSON
    /\ ~out.called
    /\ out' = Return(downselect_buildings(obj.features, obj.sys_param_building_ids))
    /\ UNCHANGED <<obj, net_vars>>

\* the worker writes the loop-order file of a reordered feature list
WriteLoopOrder ==
    /\ pc = "unit"
    /\ obj.kind = LOOPORDER
    /\ ~out.called
    /\ out' = Return(loop_order_list(obj.features))
    /\ UNCHANGED <<obj, net_vars>>

NextUnits ==
    \/ EtsGetLoads
    \/ WriteLoopOrder
    \/ DownselectBuildings
    \/ RunCommandLine
    \/ GheSizeOf
    \/ UpdateSysParamsOf
    \/ SizeHydraulicDiameter
    \/ WasteHeatSourceGetLoads
    \/ AddWasteHeatSources
    \/ AddEtsToNetwork
    \/ PumpGetLoads
    \/ FanGetLoads
    \/ HeatPumpGetLoads
    \/ DhwCalcSrcSideLoad

SpecUnits == InitUnits /\ [][NextUnits]_vars

(* ---------------- size_hydraulic_diameter, continuous mode -------------- *)
\* Outer diameters are counted in steps of 1/160 m, the resolution at which
\* two diameters differ, and losses per length in tenths of Pa/m.
CONTINUOUS == "CONTINUOUS"
LowOd == 4                      \* low_od = 0.025
HighOd == 80                    \* high_od = 0.5, also the step of its expansion
FirstTestLoss == 1000000        \* test_pressure_loss_per_length = 100000
PressureLossTolerance == 1      \* pressure_loss_tolerance = 0.1
\* the loss per length of a positive flow at the lower bound of the search
LossLevels == {10, 30, 60, 100, 150}
\* the design losses per length
DesignLosses == {20, 50}

\* Pipe.pressure_loss_per_length(vol_flow_rate, outside_diameter): 0 for a
\* flow that is not positive; for a positive flow a loss that falls with the
\* diameter, by at most the tolerance from one diameter to the next but
\* one, down to 0
continuous_pressure_loss_per_length(level, vol_flow_rate, outside_diameter) ==
    IF vol_flow_rate <= 0 THEN 0
    ELSE LET fall == (outside_diameter - LowOd) \div 2
         IN  IF fall >= level THEN 0 ELSE level - fall

\* the call size_hydraulic_diameter(vol_flow_rate, design, False) at the
\* head of its first loop; passes is the number of passes of the second
\* loop so far, modulo 2
ContinuousCalls ==
    {[kind |-> CONTINUOUS, level |-> level, vol_flow_rate |-> q,
      design_pressure_loss_per_length |-> design,
      low_od |-> LowOd, high_od |-> HighOd,
      high_pressure_loss_per_length |-> continuous_pressure_loss_per_length(level, q, HighOd),
      test_pressure_loss_per_length |-> 0, outer_diameter |-> HighOd,
      passes |-> 0] :
        level \in LossLevels, q \in {0, 1}, design \in DesignLosses}

InitContinuous ==
    /\ obj \in ContinuousCalls
    /\ out = NotCalled
    /\ pc = "expand"
    /\ features = <<>>
    /\ doc = SysParamFile(<<"U", "P", "S", "T", "R", "E", "A", "M">>, 1, NoRate)
    /\ doc_at_start = doc
    /\ system_parameters_data = doc
    /\ writes = 0
    /\ error = None
    /\ ret = NotReturned
    /\ connected_features = <<>>
    /\ reordered_features = <<>>
    /\ network_data = <<>>
    /\ des_method = None
    /\ network = <<>>
    /\ i = 0
    /\ network_load_per_area = <<>>
    /\ autosized_design_flow_rate = RatOfInt(0)

\* one pass of "while high_pressure_loss_per_length > design_pressure_loss_per_length"
ExpandUpperBound ==
    /\ pc = "expand"
    /\ obj.high_pressure_loss_per_length > obj.design_pressure_loss_per_length
    /\ obj' = [obj EXCEPT
                  !.high_od = @ + HighOd,
                  !.outer_diameter = obj.high_od + HighOd,
                  !.high_pressure_loss_per_length =
                      continuous_pressure_loss_per_length(obj.level, obj.vol_flow_rate,
                                                          obj.high_od + HighOd)]
    /\ UNCHANGED <<out, net_vars>>

\* the first loop ends and the test loss is set high for the first pass of
\* the second
StartBisection ==
    /\ pc = "expand"
    /\ ~(obj.high_pressure_loss_per_length > obj.design_pressure_loss_per_length)
    /\ obj' = [obj EXCEPT !.test_pressure_loss_per_length = FirstTestLoss]
    /\ pc' = "bisect"
    /\ UNCHANGED <<out, features, doc, doc_at_start, writes, system_parameters_data, error,
                   ret, connected_features, reordered_features, network_data, des_method,
                   network, i, network_load_per_area, autosized_design_flow_rate>>

\* one pass of the bisection loop: the loss at the middle of the bounds
\* moves the lower bound when it is above the design loss, else the upper
BisectStep ==
    /\ pc = "bisect"
    /\ Abs(obj.test_pressure_loss_per_length - obj.design_pressure_loss_per_length)
           > PressureLossTolerance
    /\ LET test_dia == (obj.low_od + obj.high_od) \div 2
           test == continuous_pressure_loss_per_length(obj.level, obj.vol_flow_rate, test_dia)
       IN  obj' = [obj EXCEPT
                     !.passes = 1 - @,
                     !.outer_diameter = test_dia,
                     !.test_pressure_loss_per_length = test,
                     !.low_od = IF test - obj.design_pressure_loss_per_length > 0
                                THEN test_dia ELSE @,
                     !.high_od = IF test - obj.design_pressure_loss_per_length > 0
                                 THEN @ ELSE test_dia]
    /\ UNCHANGED <<out, net_vars>>

\* the bisection loop ends: return self.inner_diameter, the inner diameter
\* of the last outer diameter tried, for dimension ratio 11
ReturnInnerDiameter ==
    /\ pc = "bisect"
    /\ ~(Abs(obj.test_pressure_loss_per_length - obj.design_pressure_loss_per_length)
           > PressureLossTolerance)
    /\ out' = Return(RatMul(RatOfInt(obj.outer_diameter), Rat(9, 11)))
    /\ pc' = "done"
    /\ UNCHANGED <<obj, features, doc, doc_at_start, writes, system_parameters_data, error,
                   ret, connected_features, reordered_features, network_data, des_method,
                   network, i, network_load_per_area, autosized_design_flow_rate>>

NextContinuous == ExpandUpperBound \/ StartBisection \/ BisectStep \/ ReturnInnerDiameter

\* the call keeps running while one of its loops has a pass to make
SpecContinuous == InitContinuous /\ [][NextContinuous]_vars /\ WF_vars(NextContinuous)

(* ======================================================================= *)
(*                               properties                                *)
(* ======================================================================= *)
RECURSIVE SumFn(_, _)
\* sum of the integers f[x] for x in S
SumFn(f, S) ==
    IF S = {} THEN 0
    ELSE LET x == CHOOSE y \in S : TRUE IN f[x] + SumFn(f, S \ {x})

RECURSIVE RatSumFn(_, _)
\* sum of the rationals f[x] for x in S
RatSumFn(f, S) ==
    IF S = {} THEN RatOfInt(0)
    ELSE LET x == CHOOSE y \in S : TRUE IN RatAdd(f[x], RatSumFn(f, S \ {x}))

GheSet == {j \in 1..Len(network) : IsGheComp(network[j])}
NonGheSet == {j \in 1..Len(network) : ~IsGheComp(network[j])}
Assigned(c) == Len(c.ground_loads) = Hours

\* the components strictly between the previous GHE and the GHE at index g
\* (from the start of the sequence when g is the first GHE)
Between(g) == {j \in 1..(g - 1) : \A l \in GheSet : l < g => l < j}

\* sum of the loads of the components of S in hour h
LoadSum(net, S, h) == SumFn([j \in S |-> net[j].loads[h]], S)

\* C1: in UPSTREAM allocation the per-GHE segments partition the non-GHE
\* components of the sequence: each of them, those after the last GHE
\* included, lies in the slice of exactly one GHE.
C1_SegmentsPartition ==
    (des_method = UPSTREAM /\ pc = "size_network" /\ GheSet # {}) =>
        \A j \in NonGheSet :
            Cardinality({n \in 1..Len(GheIndexes(network)) :
                            /\ SliceBounds(network, n)[1] <= j
                            /\ j <= SliceBounds(network, n)[2]}) = 1

Ids(fs) == [j \in 1..Len(fs) |-> fs[j].id]
NotPump(c) == c.comp_type # PUMP

\* C4: the sequence the strategies iterate over contains a GHE and is the
\* rotated loop order of the resolver, loop-start feature first (read here
\* for the components that follow the primary pump).
C4_NetworkIsRotatedLoop ==
    pc = "size_ghe" =>
        /\ GheSet # {}
        /\ Ids(SelectSeq(network, NotPump)) = Ids(reordered_features)

\* C5: whenever a GHE is being sized, every GHE of the network
\* already has its assigned-load array.
C5_AllAssignedBeforeAnySize ==
    pc = "ghe_size" => \A g \in GheSet : Assigned(network[g])

\* What the loops of both strategies do instead: whenever a GHE is being
\* sized, that GHE and the GHEs before
\* it in the loop have their assigned-load array of full length, and the
\* GHEs after it have none yet (assignment and sizing are interleaved).
C5_OwnLoadBeforeOwnSize ==
    pc \in {"assign", "ghe_size"} =>
        \A n \in 1..Len(GheIndexes(network)) :
            LET c == network[GheIndexes(network)[n]]
            IN  /\ (n < i \/ (n = i /\ pc = "ghe_size")) => Assigned(c)
                /\ n > i => c.ground_loads = <<>>

\* the first of two GHEs is being sized while the second has no load
C5_Witness ==
    /\ pc = "ghe_size"
    /\ i = 1
    /\ Len(GheIndexes(network)) = 2
    /\ Assigned(network[GheIndexes(network)[1]])
    /\ ~Assigned(network[GheIndexes(network)[2]])

\* C6: network pipe sizing starts only when size() of every GHE has
\* completed, and its design flow is the per-borehole flow (L/s -> m3/s)
\* times the largest borehole count over the GHEs.
C6_PipeSizingAfterAllGhe ==
    /\ pc \in {"size_network", "update_sys_params", "done"} =>
          \A g \in GheSet : network[g].sized
    /\ pc \in {"update_sys_params", "done"} =>
          \E m \in {network[g].nbh : g \in GheSet} :
             /\ \A g \in GheSet : network[g].nbh <= m
             /\ autosized_design_flow_rate = Rat(doc_at_start.flow_rate * m, 1000)

\* the pipe was sized for two GHEs, the first with more boreholes
C6_Witness ==
    /\ pc = "update_sys_params"
    /\ Len(GheIndexes(network)) = 2
    /\ network[GheIndexes(network)[1]].nbh > network[GheIndexes(network)[2]].nbh

\* C7: the system-parameter file is written once, by update_sys_params,
\* after every GHE and the network pipe have been sized; a run that ends
\* before that leaves the file as it was at the start.
C7_SingleWriteAtEnd ==
    /\ writes <= 1
    /\ writes = 1 => /\ pc = "done" /\ ret = Returned(0) /\ error = None
                     /\ \A g \in GheSet : network[g].sized
    /\ ret = Returned(0) => writes = 1
    /\ pc # "done" => doc = doc_at_start /\ writes = 0
    /\ pc = "aborted" => (error # None \/ ret = Returned(1))

\* the engine failed on the second GHE after the first had been sized
C7_Witness ==
    /\ pc = "aborted"
    /\ error = "engine_error"
    /\ i = 2
    /\ network[GheIndexes(network)[1]].sized
    /\ network[GheIndexes(network)[1]].design_method = Autosized
    /\ doc = doc_at_start

\* r is c rotated so that c[s] comes first
IsRotationBy(r, c, s) ==
    /\ Len(r) = Len(c)
    /\ \A j \in 1..Len(c) : r[j] = c[((j + s - 2) % Len(c)) + 1]

\* the directed pairs of the connectors, in document order
ConnectorPairs(fs) ==
    [k \in 1..Len(Connectors(fs)) |->
        <<Connectors(fs)[k].startFeatureId, Connectors(fs)[k].endFeatureId>>]

\* the loop A -> B -> C -> A listed in chain order, B being the only GHE
LoopABC ==
    /\ ConnectorPairs(features) = << <<"A", "B">>, <<"B", "C">>, <<"C", "A">> >>
    /\ \A j \in 1..Len(features) : IsGhe(features[j]) <=> features[j].id = "B"

\* C8: the output is a rotation of the list that puts the
\* feature flagged as loop start first.
C8_FlaggedFeatureFirst ==
    pc = "convert" =>
        /\ \E s \in 1..Len(connected_features) :
              IsRotationBy(reordered_features, connected_features, s)
        /\ \A j \in 1..Len(connected_features) :
              connected_features[j].startloop =>
                 reordered_features[1] = connected_features[j]

\* What reorder_connected_features does instead: the output is the rotation of the list that puts its first
\* Ground Heat Exchanger first, whether or not a feature is flagged; on the
\* loop A -> B -> C -> A with B the GHE it is [B, C, A].
C8_FirstGheFirst ==
    pc = "convert" =>
        /\ \E s \in 1..Len(connected_features) :
              /\ IsGhe(connected_features[s])
              /\ \A j \in 1..(s - 1) : ~IsGhe(connected_features[j])
              /\ IsRotationBy(reordered_features, connected_features, s)
        /\ LoopABC => Ids(reordered_features) = <<"B", "C", "A">>

\* the loop A -> B -> C -> A with B the GHE has been reordered
C8_Witness ==
    /\ pc = "convert"
    /\ LoopABC
    /\ reordered_features[1].startloop
    /\ Ids(connected_features) = <<"B", "C", "A">>

\* C9: each element of the resolver's output is joined to the next one
\* (the last to the first) by a connector from the former to the latter,
\* whatever the order of the document; a chain that does not close is an
\* error and gives no output.
C9_OutputFollowsConnectors ==
    pc = "reorder" =>
        \A j \in 1..Len(connected_features) :
            \E k \in 1..Len(ConnectorPairs(features)) :
                ConnectorPairs(features)[k] =
                    <<connected_features[j].id,
                      connected_features[(j % Len(connected_features)) + 1].id>>

\* two connectors of the document have the same start and the same end
DuplicateEdge(fs) ==
    \E a, b \in 1..Len(ConnectorPairs(fs)) :
        a # b /\ ConnectorPairs(fs)[a] = ConnectorPairs(fs)[b]

\* C10: without any connector, and with two connectors from one node to
\* the same successor, get_connected_features raises and returns no list.
C10_ResolverRejects ==
    pc # "get_connected" =>
        /\ Len(ConnectorPairs(features)) = 0 =>
              /\ pc = "aborted" /\ error = "no_connectors"
              /\ connected_features = <<>>
        /\ DuplicateEdge(features) =>
              /\ pc = "aborted" /\ error = "duplicate_connections"
              /\ connected_features = <<>>

\* the resolver has raised on a document with a duplicated connection
C10_Witness ==
    /\ pc = "aborted"
    /\ DuplicateEdge(features)
    /\ error = "duplicate_connections"

\* C11: size_ghe does not return normally on a network without any GHE,
\* under either strategy; sizing goes on to the pipe only with a GHE.
C11_NoGheIsFatal ==
    (pc = "size_network" /\ des_method \in {AREAPROPORTIONAL, UPSTREAM}) =>
        GheSet # {}

\* C12: when the design-method string, stripped and upper-cased, is neither
\* AREAPROPORTIONAL nor UPSTREAM, the run never reaches a GHE.size call,
\* never writes the system-parameter file and never returns success: it
\* ends with an error.
C12_UnsupportedMethodFails ==
    Join(str_upper(str_strip(doc_at_start.method))) \notin {AREAPROPORTIONAL, UPSTREAM} =>
        /\ pc \notin {"assign", "ghe_size", "size_network", "update_sys_params", "done"}
        /\ i = 0
        /\ \A g \in GheSet : ~network[g].sized /\ network[g].ground_loads = <<>>
        /\ writes = 0 /\ doc = doc_at_start
        /\ ret # Returned(0)
        /\ des_method = None

\* size_ghe has raised on a complete network whose method string, a name
\* broken by a blank, is not supported
C12_Witness ==
    /\ pc = "aborted"
    /\ error = "unsupported_design_method"
    /\ doc_at_start.method = <<"U", "P", " ", "S", "T", "R", "E", "A", "M">>
    /\ GheSet # {}
    /\ Len(network) = Len(network_data)

\* a method string that is supported only once stripped and upper-cased
\* has been accepted and a GHE sized under it
C12_NormalisedWitness ==
    /\ pc = "size_network"
    /\ doc_at_start.method = <<" ", "u", "p", "s", "t", "r", "e", "a", "m", " ">>
    /\ des_method = UPSTREAM
    /\ \E g \in GheSet : network[g].sized

\* C13: no two components of the network share the same (name, type).
C13_UniqueNameAndType ==
    \A a, b \in 1..Len(network) :
        a # b => <<network[a].name, network[a].comp_type>>
                    # <<network[b].name, network[b].comp_type>>

\* C14: ETS.get_loads returns, for every hour,
\* heating(1 - 1/COP_h) + dhw(1 - 1/COP_dhw) + source pump heat
\* - (|cooling| + fan + load pump heat)(1 + 1/COP_c).
C14_EtsNetLoad ==
    (obj.kind = ENERGYTRANSFERSTATION /\ out.called) =>
        /\ out.raised = None
        /\ Len(out.value) = Hours
        /\ \A h \in 1..Hours :
             out.value[h] =
               RatSub(
                 RatAdd(
                   RatAdd(
                     RatMul(RatOfInt(obj.heating_loads[h]),
                            RatSub(RatOfInt(1), RatDiv(RatOfInt(1), obj.heating_heatpump.cop))),
                     RatMul(RatOfInt(obj.dhw_loads[h]),
                            RatSub(RatOfInt(1), RatDiv(RatOfInt(1), obj.dhw_heatpump.cop)))),
                   Pump_get_loads(obj.src_pump, Hours)[h]),
                 RatMul(
                   RatAdd(RatAdd(RatOfInt(obj.cooling_loads[h]), Fan_get_loads(obj.load_fan)[h]),
                          Pump_get_loads(obj.load_pump, Hours)[h]),
                   RatAdd(RatOfInt(1), RatDiv(RatOfInt(1), obj.cooling_heatpump.cop))))

\* L(1 - 1/COP) and L(1 + 1/COP) for the COP n/d, written out
Extraction(L, cop) == Rat(L * (cop[1] - cop[2]), cop[1])
Rejection(L, cop) == Rat(L * (cop[1] + cop[2]), cop[1])

\* C15: a heating or dhw load L is mapped to L(1 - 1/COP) and a cooling load
\* to L(1 + 1/COP), each with the COP of its own mode; for a positive load
\* the result is below the load, for a cooling load its magnitude exceeds
\* the load, and both are strictly monotonic in the COP.
C15_HeatPumpTransform ==
    /\ (obj.kind = HEATPUMP /\ out.called) =>
         LET L == obj.space_load
             r == out.value[1]
         IN  /\ out.raised = None
             /\ L >= 0 => r = Extraction(L, obj.cop_h)
             /\ L < 0 => r = Rejection(L, obj.cop_c)
             /\ L > 0 => RatLess(r, RatOfInt(L))
             /\ L < 0 => RatLess(RatOfInt(-L), RatAbs(r))
             /\ \A c \in HpCops :
                  /\ (L > 0 /\ RatLess(obj.cop_h, c)) =>
                        RatLess(r, calc_src_side_load([obj EXCEPT !.cop_h = c], L))
                  /\ (L < 0 /\ RatLess(obj.cop_c, c)) =>
                        RatLess(RatAbs(calc_src_side_load([obj EXCEPT !.cop_c = c], L)),
                                RatAbs(r))
    /\ (obj.kind = DHW /\ out.called) =>
         /\ out.value[1] = Extraction(obj.space_load, obj.cop_heat_pump_hot_water)
         /\ obj.space_load > 0 => RatLess(out.value[1], RatOfInt(obj.space_load))

\* a cooling load of 1 with COP 7/2 has given a rejection of 9/7, while the
\* heating COP is another one
C15_Witness ==
    /\ obj.kind = HEATPUMP
    /\ out.called
    /\ obj.space_load = -1
    /\ obj.cop_c = Rat(7, 2)
    /\ obj.cop_h = Rat(5, 2)
    /\ out.value = << Rat(-9, 7) >>

\* design_flow * design_head of the pump or fan held in obj
HydraulicPower == RatOfInt(obj.props.design_flow_rate * obj.props.design_head)
\* the share of the hydraulic power that is motor heat reaching the fluid
MotorHeatShare ==
    RatMul(RatSub(RatOfInt(1), obj.props.motor_efficiency),
           obj.props.motor_inefficiency_to_fluid_stream)

\* C16: Pump.get_loads returns a constant array whose every value is
\* design_flow * design_head * (1 - motor_efficiency) * fraction to the
\* fluid, and Fan.get_loads a constant array of design_flow * design_head.
C16_PumpMotorHeatOnly ==
    /\ (obj.kind = PUMP /\ out.called) =>
          \A h \in 1..Len(out.value) :
             out.value[h] = RatMul(HydraulicPower, MotorHeatShare)
    /\ (obj.kind = FAN /\ out.called) =>
          \A h \in 1..Len(out.value) : out.value[h] = HydraulicPower

\* C16 amended: Pump.get_loads(num_loads) returns num_loads equal values,
\* each the hydraulic power plus the motor heat reaching the fluid,
\* design_flow * design_head * (1 + (1 - motor_efficiency) * fraction);
\* Fan.get_loads returns one value design_flow * design_head per hour of
\* the year.
C16_PumpHydraulicPlusMotorHeat ==
    /\ (obj.kind = PUMP /\ out.called) =>
          /\ out.raised = None
          /\ Len(out.value) = obj.num_loads
          /\ \A h \in 1..Len(out.value) :
                out.value[h] =
                   RatMul(HydraulicPower, RatAdd(RatOfInt(1), MotorHeatShare))
    /\ (obj.kind = FAN /\ out.called) =>
          /\ out.raised = None
          /\ Len(out.value) = Hours
          /\ \A h \in 1..Hours : out.value[h] = HydraulicPower

\* a pump of hydraulic power 2, efficiency 1/2 and fraction 1/2 has
\* returned 5/2 for every hour
C16_Witness ==
    /\ obj.kind = PUMP
    /\ out.called
    /\ obj.num_loads = Hours
    /\ obj.props.motor_efficiency = Rat(1, 2)
    /\ out.value = [h \in 1..Hours |-> Rat(5, 2)]

\* C17: after the load cascade every ETS holds heating, cooling and dhw
\* series of exactly HOURS_IN_YEAR hourly values and its net ground-load
\* array has exactly HOURS_IN_YEAR values, whatever the step or the number
\* of rows of the load file
C17_HourlyForAYear ==
    (obj.kind = LOADFILE /\ out.called) =>
        /\ out.raised = None
        /\ Len(out.value.heating_loads) = Hours
        /\ Len(out.value.cooling_loads) = Hours
        /\ Len(out.value.dhw_loads) = Hours
        /\ ETS_get_loads(out.value).raised = None
        /\ Len(ETS_get_loads(out.value).value) = Hours

\* the series alone: the three series the ETS holds after add_ets_to_network
C17_SeriesHourlyForAYear ==
    (obj.kind = LOADFILE /\ out.called /\ out.raised = None) =>
        /\ Len(out.value.heating_loads) = Hours
        /\ Len(out.value.cooling_loads) = Hours
        /\ Len(out.value.dhw_loads) = Hours

\* a load file of more rows than the year has hours was resampled and cut
C17_Witness ==
    /\ obj.kind = LOADFILE
    /\ Len(obj.space_loads_file.times) > Hours
    /\ out.called
    /\ out.raised = None
    /\ Len(out.value.heating_loads) = Hours

\* C18: when a waste-heat rate is configured, no hour of the adjusted load
\* is negative, an hour whose load is already negative is not altered, no
\* hourly load is raised and no hourly load changes sign
C18_HeatingReliefOnly ==
    (/\ des_method = AREAPROPORTIONAL
     /\ system_parameters_data.heat_source_rate # NoRate
     /\ pc # "size_ghe"
     /\ TotalGheArea(network) > 0) =>
        LET before == TotalNetworkLoads(network)
            after == [h \in 1..Hours |->
                         RatMul(network_load_per_area[h], RatOfInt(TotalGheArea(network)))]
        IN  \A h \in 1..Hours :
                /\ ~RatLess(after[h], RatOfInt(0))
                /\ before[h] < 0 =>
                       /\ ~RatLess(after[h], RatOfInt(before[h]))
                       /\ ~RatLess(RatOfInt(before[h]), after[h])
                /\ ~RatLess(RatOfInt(before[h]), after[h])
                /\ before[h] > 0 => ~RatLess(after[h], RatOfInt(0))
                /\ before[h] < 0 => RatLess(after[h], RatOfInt(0))

\* the clamp alone: with a rate configured every hour of the adjusted load
\* is maximum(load - rate, 0), so no hour is negative
C18_ClampedAtZero ==
    (/\ des_method = AREAPROPORTIONAL
     /\ system_parameters_data.heat_source_rate # NoRate
     /\ pc # "size_ghe"
     /\ TotalGheArea(network) > 0) =>
        \A h \in 1..Hours :
            LET before == TotalNetworkLoads(network)[h] - system_parameters_data.heat_source_rate[1]
                after == RatMul(network_load_per_area[h], RatOfInt(TotalGheArea(network)))
            IN  /\ ~RatLess(after, RatOfInt(0))
                /\ before > 0 =>
                       /\ ~RatLess(after, RatOfInt(before))
                       /\ ~RatLess(RatOfInt(before), after)
                /\ before <= 0 => ~RatLess(RatOfInt(0), after)

\* the schedule or the rate of a waste-heat configuration cannot be used:
\* a schedule file that is missing, unreadable or without data, a schedule
\* without a system-parameter path, or a rate that is no number
Unusable(rate, path, mos) ==
    IF str_endswith(rate, MosSuffix)
    THEN path = None \/ mos.state # "ok" \/ Len(mos.data) = 0
    ELSE float(rate) = <<>>

\* C19: a waste-heat schedule that is missing, empty or unreadable, a
\* schedule without a system-parameter path, or a rate that is not a valid
\* number leaves zero adjustment: the loads are returned unchanged, a
\* WasteHeatSource holds zeros, and no exception reaches the caller
C19_UnusableWasteHeatIsZero ==
    /\ (/\ obj.kind = HEATSOURCEPARAMETERS
        /\ out.called
        /\ obj.heat_source_rate # <<>>) =>
           (Unusable(obj.heat_source_rate[1], obj.system_parameter_path, obj.mos) =>
               /\ out.raised = None
               /\ out.value = obj.total_network_loads)
    /\ (obj.kind = WASTEHEATSOURCE /\ out.called) =>
           (Unusable(obj.heat_source_rate, obj.system_parameter_path, obj.mos) =>
               /\ out.raised = None
               /\ out.value = [h \in 1..Hours |-> RatOfInt(0)])

\* the WasteHeatSource alone: whatever cannot be used leaves zeros
C19_WasteHeatSourceZero ==
    (/\ obj.kind = WASTEHEATSOURCE
     /\ out.called
     /\ Unusable(obj.heat_source_rate, obj.system_parameter_path, obj.mos)) =>
        /\ out.raised = None
        /\ out.value = [h \in 1..Hours |-> RatOfInt(0)]

\* C20: a WasteHeatSource built with a numeric heat_source_rate r exposes
\* through get_loads() exactly HOURS_IN_YEAR values, all equal to r
C20_ConstantRateLoads ==
    (/\ obj.kind = WASTEHEATSOURCE
     /\ out.called
     /\ ~str_endswith(obj.heat_source_rate, MosSuffix)
     /\ float(obj.heat_source_rate) # <<>>) =>
        /\ out.raised = None
        /\ Len(out.value) = Hours
        /\ \A h \in 1..Hours : out.value[h] = float(obj.heat_source_rate)[1]

\* what the code leaves instead: every value is zero minus r
C20_ConstantRateNegated ==
    (/\ obj.kind = WASTEHEATSOURCE
     /\ out.called
     /\ ~str_endswith(obj.heat_source_rate, MosSuffix)
     /\ float(obj.heat_source_rate) # <<>>) =>
        /\ out.raised = None
        /\ Len(out.value) = Hours
        /\ \A h \in 1..Hours :
               out.value[h] = RatSub(RatOfInt(0), float(obj.heat_source_rate)[1])

\* the loss per length of the sized flow at size k of the catalog
LossAt(k) ==
    pressure_loss_per_length(obj.pipe, obj.vol_flow_rate, CatalogDiameters[k])
\* size k of the catalog is below the design loss per length
Qualifies(k) == RatLess(LossAt(k), obj.design_pressure_loss_per_length)
\* the inner diameter of size k: outer * (1 - 2 / dimension_ratio)
InnerOf(k) ==
    RatMul(CatalogDiameters[k], Rat(obj.pipe.dimension_ratio - 2, obj.pipe.dimension_ratio))

\* C23: in discrete mode size_hydraulic_diameter returns the inner diameter
\* outer * (1 - 2 / dimension_ratio) of the first catalog size, in ascending
\* outer diameter, whose loss per length is below the target; if no size
\* qualifies it logs a warning and returns the largest catalog size
C23_FirstSizeBelowTarget ==
    (obj.kind = PIPE /\ out.called) =>
        /\ out.raised = None
        /\ \A k \in 1..(Len(ip_pipes_outside_diameter) - 1) :
               ip_pipes_outside_diameter[k] < ip_pipes_outside_diameter[k + 1]
        /\ \A k \in 1..MaxPipeSizes :
               (Qualifies(k) /\ \A l \in 1..(k - 1) : ~Qualifies(l)) =>
                   /\ out.value.value = InnerOf(k)
                   /\ ~out.value.warning
        /\ (\A k \in 1..MaxPipeSizes : ~Qualifies(k)) =>
               /\ out.value.value = InnerOf(MaxPipeSizes)
               /\ out.value.warning

\* a flow whose loss is below the target at the second size and at a later
\* one, but not at the first, was sized to the second
C23_Witness ==
    /\ obj.kind = PIPE
    /\ out.called
    /\ ~Qualifies(1)
    /\ Qualifies(2)
    /\ Qualifies(MaxPipeSizes)
    /\ out.value.value = InnerOf(2)

\* no size of the catalog qualified and the largest was returned
C23_LargestWitness ==
    /\ obj.kind = PIPE
    /\ out.called
    /\ \A k \in 1..MaxPipeSizes : ~Qualifies(k)
    /\ out.value.warning
    /\ out.value.value = InnerOf(MaxPipeSizes)

\* C21: update_sys_params writes hydraulic_diameter, pump_design_head and
\* pump_flow_rate each only when its own flag is true; a value whose flag is
\* false or absent is the same afterwards as before, whatever the other two
\* flags are
C21_OwnFlagOnly ==
    (obj.kind = SYSPARAMS /\ out.called) =>
        /\ out.raised = None
        /\ out.value.hydraulic_diameter =
               IF obj.d.hydraulic_diameter_autosized = <<TRUE>>
               THEN obj.sized.autosized_hydraulic_dia ELSE obj.d.hydraulic_diameter
        /\ out.value.pump_design_head =
               IF obj.d.pump_design_head_autosized = <<TRUE>>
               THEN obj.sized.autosized_design_pump_head ELSE obj.d.pump_design_head
        /\ out.value.pump_flow_rate =
               IF obj.d.pump_flow_rate_autosized = <<TRUE>>
               THEN obj.sized.autosized_design_flow_rate ELSE obj.d.pump_flow_rate
        /\ out.value.hydraulic_diameter_autosized = obj.d.hydraulic_diameter_autosized
        /\ out.value.pump_design_head_autosized = obj.d.pump_design_head_autosized
        /\ out.value.pump_flow_rate_autosized = obj.d.pump_flow_rate_autosized

\* the flags of the test: the diameter is kept, the head is written, and the
\* flow rate, whose flag is absent, is kept
C21_Witness ==
    /\ obj.kind = SYSPARAMS
    /\ out.called
    /\ obj.d.hydraulic_diameter_autosized = <<FALSE>>
    /\ obj.d.pump_design_head_autosized = <<TRUE>>
    /\ obj.d.pump_flow_rate_autosized = <<>>
    /\ obj.sized.autosized_hydraulic_dia # obj.d.hydraulic_diameter
    /\ obj.sized.autosized_design_flow_rate # obj.d.pump_flow_rate
    /\ out.value.hydraulic_diameter = obj.d.hydraulic_diameter
    /\ out.value.pump_design_head = obj.sized.autosized_design_pump_head
    /\ out.value.pump_design_head # obj.d.pump_design_head
    /\ out.value.pump_flow_rate = obj.d.pump_flow_rate

\* the GHEs of the network that are not pre-designed
AutosizedGhes == {j \in 1..Len(network) : IsGheComp(network[j]) /\ network[j].design_method # PreDesigned}

\* C22: after a successful run the borefields entry of every autosized GHE
\* holds that GHE's own borehole_length and number_of_boreholes, no entry
\* holds the result of another GHE, and the entries of pre-designed
\* borefields are unchanged
C22_OwnResultPerBorefield ==
    (pc = "done" /\ ret = Returned(0)) =>
        /\ \A j \in AutosizedGhes :
               /\ doc.borefields[network[j].id].number_of_boreholes = network[j].nbh
               /\ doc.borefields[network[j].id].borehole_length = network[j].bh_length
               /\ network[j].sized
        /\ \A id \in DOMAIN doc.borefields :
               (\A j \in AutosizedGhes : network[j].id # id) =>
                   doc.borefields[id] = doc_at_start.borefields[id]
        /\ \A id \in DOMAIN doc.borefields :
               doc_at_start.borefields[id].design_method = PreDesigned =>
                   doc.borefields[id] = doc_at_start.borefields[id]

\* a run ended with two autosized GHEs of different borehole counts and a
\* pre-designed one, each entry holding its own
C22_Witness ==
    /\ pc = "done"
    /\ ret = Returned(0)
    /\ \E j, l \in AutosizedGhes :
           /\ network[j].nbh # network[l].nbh
           /\ doc.borefields[network[j].id].number_of_boreholes = network[j].nbh
           /\ doc.borefields[network[l].id].number_of_boreholes = network[l].nbh
    /\ \E j \in 1..Len(network) :
           /\ IsGheComp(network[j])
           /\ network[j].design_method = PreDesigned
           /\ doc.borefields[network[j].id] = doc_at_start.borefields[network[j].id]

\* C24: if the engine fails or leaves no summary for an autosized GHE,
\* GHE.size raises and nbh and bh_length are not set, a summary left in the
\* directory by an earlier run being removed before the engine is called
C24_NoStaleSummary ==
    (/\ obj.kind = GHE_KIND
     /\ out.called
     /\ obj.design_method = Autosized
     /\ (obj.engine.raises \/ obj.engine.summary = <<>>)) =>
        /\ out.raised # None
        /\ out.value.ghe.nbh = <<>>
        /\ out.value.ghe.bh_length = <<>>
        /\ out.value.ghe_dir.summary = <<>>

\* the engine returned without a summary while the directory held the
\* summary of an earlier run, and size raised
C24_Witness ==
    /\ obj.kind = GHE_KIND
    /\ out.called
    /\ obj.design_method = Autosized
    /\ obj.ghe_dir.summary # <<>>
    /\ ~obj.engine.raises
    /\ obj.engine.summary = <<>>
    /\ out.raised = "FileNotFoundError"
    /\ out.value.ghe.nbh = <<>>

\* C25: for a pre-designed GHE size() makes no call to the engine; its
\* borehole count is the number of fixed coordinates and its length the
\* configured one, both populated only once size() has returned
C25_PreDesignedNoEngineCall ==
    (obj.kind = GHE_KIND /\ obj.design_method = PreDesigned) =>
        /\ ~out.called => GHE(obj).nbh = <<>> /\ GHE(obj).bh_length = <<>>
        /\ out.called =>
               /\ out.value.engine_calls = 0
               /\ out.raised = None =>
                      /\ out.value.ghe.nbh = <<obj.borehole_x_coordinates>>
                      /\ out.value.ghe.bh_length = <<obj.borehole_length>>
               /\ out.raised # None =>
                      /\ out.value.ghe.nbh = <<>>
                      /\ out.value.ghe.bh_length = <<>>

\* what the code does: the engine is run once on the pre-designed input
\* unless the coordinate lists differ; the count and the length are taken
\* from the configuration before the engine is run, whatever it then does,
\* and its summary is not read
C25_PreDesignedFromConfiguration ==
    (obj.kind = GHE_KIND /\ obj.design_method = PreDesigned) =>
        /\ ~out.called => GHE(obj).nbh = <<>> /\ GHE(obj).bh_length = <<>>
        /\ out.called =>
               IF obj.borehole_x_coordinates # obj.borehole_y_coordinates
               THEN /\ out.raised = "ValueError"
                    /\ out.value.engine_calls = 0
                    /\ out.value.ghe.nbh = <<>>
                    /\ out.value.ghe.bh_length = <<>>
               ELSE /\ out.value.engine_calls = 1
                    /\ out.raised = (IF obj.engine.raises THEN "engine_error" ELSE None)
                    /\ out.value.ghe.nbh = <<obj.borehole_x_coordinates>>
                    /\ out.value.ghe.bh_length = <<obj.borehole_length>>

\* a pre-designed GHE whose engine run raised holds its count and length,
\* and one whose engine wrote a summary with another count keeps its own
C25_Witness ==
    /\ obj.kind = GHE_KIND
    /\ obj.design_method = PreDesigned
    /\ out.called
    /\ out.value.engine_calls = 1
    /\ obj.engine.summary # <<>>
    /\ obj.engine.summary[1].number_of_boreholes # obj.borehole_x_coordinates
    /\ out.raised = None
    /\ out.value.ghe.nbh = <<obj.borehole_x_coordinates>>
    /\ out.value.ghe.bh_length = <<obj.borehole_length>>

\* C26: the command exits with status 0 exactly when the sizing completed,
\* that is when the worker was called and returned 0; a worker that returns
\* 1 gives a nonzero status
C26_ExitZeroIffCompleted ==
    (obj.kind = COMMANDLINE /\ out.called) =>
        (out.value.exit_status = 0 <=> out.value.worker_returned = <<0>>)

\* the part of C26 the command keeps: a completed sizing exits with 0, and
\* a missing file at parse time or an exception exits with a nonzero status
C26_ExceptionsAreNonzero ==
    (obj.kind = COMMANDLINE /\ out.called) =>
        /\ out.value.worker_returned = <<0>> => out.value.exit_status = 0
        /\ (~out.value.worker_called \/ out.value.worker_raised # None) =>
               out.value.exit_status # 0

\* C27: the rebuilt feature list keeps every non-building feature and only
\* the buildings whose id is a geojson_id of the system-parameter file
C27_OnlySysParamBuildings ==
    (obj.kind = GEOJSON /\ out.called) =>
        /\ \A k \in 1..Len(obj.features) :
               IsNotBuilding(obj.features[k]) => obj.features[k] \in SeqRange(out.value.features)
        /\ \A k \in 1..Len(out.value.features) :
               IsBuilding(out.value.features[k]) =>
                   out.value.features[k].id \in obj.sys_param_building_ids

\* what the rebuilt list is: the non-building features, then every building
\* feature, in their order; a difference between the two sets of building
\* ids is logged
C27_AllBuildingsKept ==
    (obj.kind = GEOJSON /\ out.called) =>
        /\ out.value.features =
               SelectSeq(obj.features, IsNotBuilding) \o SelectSeq(obj.features, IsBuilding)
        /\ BuildingIds(obj.features) # obj.sys_param_building_ids => out.value.logged_error

\* the ids a loop-order list holds under a key, group after group
RECURSIVE IdsUnder(_, _)
IdsUnder(groups, key) ==
    IF groups = <<>> THEN <<>>
    ELSE LET g == Head(groups)
             here == Flatten([j \in 1..Len(g) |-> IF g[j][1] = key THEN g[j][2] ELSE <<>>])
         IN  here \o IdsUnder(Tail(groups), key)

\* the ids of the features of a district system type, in list order
IdsOfType(fs, t) ==
    LET OfType(f) == f.district_system_type = t
        sel == SelectSeq(fs, OfType)
    IN  [j \in 1..Len(sel) |-> sel[j].id]

GroupHasKey(g, key) == \E j \in 1..Len(g) : g[j][1] = key

\* C29: every group of the loop-order file holds a building and a source,
\* and the building ids and the GHE ids of the file are those of the list,
\* each once and in loop order, GHEs after the last building included
C29_NoFeatureMissing ==
    (obj.kind = LOOPORDER /\ out.called) =>
        /\ \A j \in 1..Len(out.value) :
               /\ GroupHasKey(out.value[j], "list_bldg_ids_in_group")
               /\ (GroupHasKey(out.value[j], "list_ghe_ids_in_group")
                   \/ GroupHasKey(out.value[j], "list_source_ids_in_group"))
        /\ IdsUnder(out.value, "list_bldg_ids_in_group") = IdsOfType(obj.features, None)
        /\ IdsUnder(out.value, "list_ghe_ids_in_group")
               = IdsOfType(obj.features, GroundHeatExchanger)

\* the part of C29 the file keeps: groups hold a building and a source, the
\* buildings are all there, once and in order, and the GHEs of the file are
\* those of the list up to the last building, in order
C29_BuildingsKept ==
    (obj.kind = LOOPORDER /\ out.called) =>
        LET fs == obj.features
            IsBldg(k) == source_types(fs[k].district_system_type) = None
            last == IF \E k \in 1..Len(fs) : IsBldg(k)
                    THEN CHOOSE k \in 1..Len(fs) : IsBldg(k) /\ \A l \in (k + 1)..Len(fs) : ~IsBldg(l)
                    ELSE 0
        IN  /\ \A j \in 1..Len(out.value) :
                   /\ GroupHasKey(out.value[j], "list_bldg_ids_in_group")
                   /\ (GroupHasKey(out.value[j], "list_ghe_ids_in_group")
                       \/ GroupHasKey(out.value[j], "list_source_ids_in_group"))
            /\ IdsUnder(out.value, "list_bldg_ids_in_group") = IdsOfType(fs, None)
            /\ IdsUnder(out.value, "list_ghe_ids_in_group")
                   = IdsOfType(SubSeq(fs, 1, last), GroundHeatExchanger)

\* the loss per length at the outer diameter the call last tried is within
\* the tolerance of the design loss
WithinTolerance ==
    Abs(continuous_pressure_loss_per_length(obj.level, obj.vol_flow_rate, obj.outer_diameter)
        - obj.design_pressure_loss_per_length) <= PressureLossTolerance

\* C28: in continuous mode size_hydraulic_diameter returns, for every flow
\* that is not negative and every positive design loss, with a diameter
\* whose loss per length is within the tolerance of the design loss
C28_ContinuousTerminates == <>(pc = "done" /\ out.called /\ WithinTolerance)

\* whenever the call returns, the loss is within the tolerance
C28_WithinToleranceOnReturn == pc = "done" => (out.called /\ WithinTolerance)

\* the call returns when the flow is positive and its loss at the lower
\* bound of the search is above the design loss
C28_TerminatesWhenBracketed ==
    (obj.vol_flow_rate > 0 /\ obj.level > obj.design_pressure_loss_per_length)
        ~> (pc = "done")

\* a call with no flow, or whose loss at the lower bound is under the
\* design loss by more than the tolerance, is still in its second loop with
\* both bounds at the lower bound
C28_StuckAtLowerBound ==
    /\ pc = "bisect"
    /\ obj.low_od = LowOd
    /\ obj.high_od = LowOd
    /\ obj.outer_diameter = LowOd
    /\ Abs(obj.test_pressure_loss_per_length - obj.design_pressure_loss_per_length)
           > PressureLossTolerance

\* the cooling loads an ETS holds that are below zero: loads read from an
\* hourly file are integers, interpolated ones fractions
CoolingBelowZero ==
    {h \in 1..Len(out.value.cooling_loads) :
        IF Len(obj.space_loads_file.times) = Hours
        THEN out.value.cooling_loads[h] < 0
        ELSE RatLess(out.value.cooling_loads[h], RatOfInt(0))}

\* C30: the cooling series of an ETS added to the network is non-negative,
\* whether its load file was hourly for the year or was resampled by
\* make_loads_hourly
C30_CoolingNonNegative ==
    (obj.kind = LOADFILE /\ out.called /\ out.raised = None) =>
        CoolingBelowZero = {}

\* the part of C30 the code keeps: a load file that is hourly for the year
\* gives the absolute values of its cooling column
C30_HourlyFileNonNegative ==
    (/\ obj.kind = LOADFILE
     /\ out.called
     /\ Len(obj.space_loads_file.times) = Hours) =>
        /\ out.raised = None
        /\ out.value.cooling_loads =
               [h \in 1..Hours |-> Abs(obj.space_loads_file.TotalCoolingSensibleLoad[h])]

\* a load file of another length was resampled and the ETS holds its
\* cooling column as it stands in the file, below zero
C30_ResampledNegative ==
    /\ obj.kind = LOADFILE
    /\ out.called
    /\ out.raised = None
    /\ Len(obj.space_loads_file.times) # Hours
    /\ CoolingBelowZero # {}

====
